---- MODULE Spec2Model ----
(***************************************************************************)
(* Plan execution engine of regex-pattern-app                              *)
(* (backend/api/utils/regex_executor.py and its collaborators).            *)
(*                                                                         *)
(* Text is modelled by TLA+ strings, a character by a string of length 1;  *)
(* positions are 1-based (position i here is Python index i-1).  Every     *)
(* regular expression of the source is translated by hand into a scanner   *)
(* over the characters.                                                    *)
(***************************************************************************)
EXTENDS Integers, Sequences, FiniteSets, TLC

RECURSIVE invoke(_, _)

(***************************************************************************)
(* Characters and strings                                                  *)
(***************************************************************************)
Ch(s, i) == IF i >= 1 /\ i <= Len(s) THEN SubSeq(s, i, i) ELSE ""

Slice(s, i, j) ==
    IF i > j \/ i > Len(s) \/ j < 1 THEN ""
    ELSE SubSeq(s, IF i < 1 THEN 1 ELSE i, IF j > Len(s) THEN Len(s) ELSE j)

StartsAt(s, i, lit) == Slice(s, i, i + Len(lit) - 1) = lit

\* the backtick character: the only place a backtick is written in this
\* module (the apostrophe after it closes the quotation for the lexer)
BT == SubSeq("`'", 1, 1)

\* a backtick-quoted identifier
bq(name) == BT \o name \o BT

UpperChars == "ABCDEFGHIJKLMNOPQRSTUVWXYZ"

LowerChars == "abcdefghijklmnopqrstuvwxyz"

DigitChars == "0123456789"

PosIn(alphabet, c) ==
    IF \E i \in 1..Len(alphabet) : Ch(alphabet, i) = c
    THEN CHOOSE i \in 1..Len(alphabet) : Ch(alphabet, i) = c
    ELSE 0

IsDigit(c) == PosIn(DigitChars, c) > 0

IsAlpha(c) == PosIn(UpperChars, c) > 0 \/ PosIn(LowerChars, c) > 0

\* \w of the re module
IsWord(c) == IsDigit(c) \/ IsAlpha(c) \/ c = "_"

\* \s of the re module
IsSpace(c) == c \in {" ", "\t", "\n", "\r"}

LowerCh(c) == IF PosIn(UpperChars, c) > 0 THEN Ch(LowerChars, PosIn(UpperChars, c)) ELSE c

\* evaluation by halves keeps the nesting of the evaluation logarithmic
RECURSIVE casefold(_)
casefold(s) ==
    IF Len(s) <= 1 THEN LowerCh(s)
    ELSE casefold(SubSeq(s, 1, Len(s) \div 2)) \o casefold(SubSeq(s, (Len(s) \div 2) + 1, Len(s)))

\* lit (lower case) occurs at position i, whatever the case (re.I)
StartsAtCI(s, i, lit) == invoke("casefold", <<Slice(s, i, i + Len(lit) - 1)>>) = lit

\* first position j >= i that is past the end or whose character fails P
SkipWhile(P(_), s, i) ==
    IF i > Len(s) THEN i
    ELSE CHOOSE j \in i..(Len(s) + 1) :
           /\ j = Len(s) + 1 \/ ~P(Ch(s, j))
           /\ \A k \in i..(j - 1) : P(Ch(s, k))

\* first position j >= i that is past the end or holds no blank
SkipSpace(s, i) ==
    IF i > Len(s) THEN i
    ELSE CHOOSE j \in i..(Len(s) + 1) :
           /\ j = Len(s) + 1 \/ ~IsSpace(Ch(s, j))
           /\ \A k \in i..(j - 1) : IsSpace(Ch(s, k))

\* first position j >= i that is past the end or holds no digit
SkipDigits(s, i) ==
    IF i > Len(s) THEN i
    ELSE CHOOSE j \in i..(Len(s) + 1) :
           /\ j = Len(s) + 1 \/ ~IsDigit(Ch(s, j))
           /\ \A k \in i..(j - 1) : IsDigit(Ch(s, k))

\* last position j' <= j whose character is not a blank, 0 if none
RSkipSpace(s, j) ==
    IF \E k \in 1..j : ~IsSpace(Ch(s, k))
    THEN CHOOSE k \in 1..j : ~IsSpace(Ch(s, k)) /\ \A l \in (k + 1)..j : IsSpace(Ch(s, l))
    ELSE 0

\* str.strip()
strip(s) == Slice(s, SkipSpace(s, 1), RSkipSpace(s, Len(s)))

\* first position >= i holding character c, 0 when there is none
IndexOf(s, c, i) ==
    IF \E j \in i..Len(s) : Ch(s, j) = c
    THEN CHOOSE j \in i..Len(s) : Ch(s, j) = c /\ \A k \in i..(j - 1) : Ch(s, k) # c
    ELSE 0

\* first position >= i holding c with no newline before it ('.' stops at a newline)
IndexOfOnLine(s, c, i) ==
    LET j == IndexOf(s, c, i)
    IN IF j > 0 /\ \A k \in i..(j - 1) : Ch(s, k) # "\n" THEN j ELSE 0

\* left fold of Step over the positions lo..hi, evaluated by halves; the
\* test on the left half makes it a value before the right half starts
RECURSIVE FoldRange(_, _, _, _)
FoldRange(Step(_, _), st, lo, hi) ==
    IF lo > hi THEN st
    ELSE IF lo = hi THEN Step(st, lo)
    ELSE LET mid == (lo + hi) \div 2
             left == FoldRange(Step, st, lo, mid)
         IN IF left = left THEN FoldRange(Step, left, mid + 1, hi) ELSE st

\* re.sub: MatchEnd(i) is the position after the match that starts at i
\* (0 when the pattern does not match there, matches are never empty) and
\* Repl(i) the text that replaces that match
sub_step(q, MatchEnd(_), Repl(_), st, i) ==
    IF i < st.next THEN st
    ELSE LET e == MatchEnd(i)
         IN IF e > 0 THEN [next |-> e, acc |-> st.acc \o Repl(i)]
            ELSE [next |-> i + 1, acc |-> st.acc \o Ch(q, i)]

re_sub(q, MatchEnd(_), Repl(_)) ==
    FoldRange(LAMBDA t, i : sub_step(q, MatchEnd, Repl, t, i), [next |-> 1, acc |-> ""], 1, Len(q)).acc

\* re.findall: At(i) is the match record [ok, ..., next] at position i
findall_step(At(_), st, i) ==
    IF i < st.next THEN st
    ELSE LET m == At(i)
         IN IF m.ok THEN [next |-> m.next, out |-> Append(st.out, m)]
            ELSE [st EXCEPT !.next = i + 1]

re_findall(q, At(_)) ==
    FoldRange(LAMBDA t, i : findall_step(At, t, i), [next |-> 1, out |-> <<>>], 1, Len(q)).out

RECURSIVE DigitsToNat(_)
DigitsToNat(s) ==
    IF s = "" THEN 0
    ELSE DigitsToNat(Slice(s, 1, Len(s) - 1)) * 10 + (PosIn(DigitChars, Ch(s, Len(s))) - 1)

RECURSIVE NatToStr(_)
NatToStr(n) == IF n < 10 THEN Ch(DigitChars, n + 1) ELSE NatToStr(n \div 10) \o Ch(DigitChars, (n % 10) + 1)

SelectNonEmpty(parts) == SelectSeq(parts, LAMBDA p : p # "")

(***************************************************************************)
(* _split_top_level: split at the top-level logical word 'or'              *)
(***************************************************************************)
\* re.match(r'(?i)\bor\b', expr[i:]): the slice drops what precedes position
\* i, so the leading \b holds as soon as the slice starts with 'o'.
or_match_sliced(expr, i) ==
    /\ invoke("casefold", <<Slice(expr, i, i + 1)>>) = "or"
    /\ ~IsWord(Ch(expr, i + 2))

or_match(expr, i) == or_match_sliced(expr, i)

\* a loop body that has no escape handling: a backslash is an ordinary character
split_step_without_escapes(expr, st, i) ==
    IF i < st.next THEN st
    ELSE
      LET ch == Ch(expr, i) IN
      IF ~st.in_d /\ ch = "'"
      THEN [st EXCEPT !.next = i + 1, !.buf = st.buf \o ch, !.in_s = ~st.in_s]
      ELSE IF ~st.in_s /\ ch = "\""
      THEN [st EXCEPT !.next = i + 1, !.buf = st.buf \o ch, !.in_d = ~st.in_d]
      ELSE IF ~st.in_s /\ ~st.in_d /\ st.depth + (IF ch = "(" THEN 1 ELSE 0) = 0 /\ or_match(expr, i)
      THEN [st EXCEPT !.next = i + 2, !.buf = "", !.out = Append(st.out, strip(st.buf))]
      ELSE [st EXCEPT !.next = i + 1, !.buf = st.buf \o ch,
                      !.depth = IF st.in_s \/ st.in_d THEN @
                                ELSE IF ch = "(" THEN @ + 1 ELSE IF ch = ")" /\ @ > 0 THEN @ - 1 ELSE @]

\* one turn of the while loop, at position i; the scanner state is
\* [next, buf, out, depth, in_s, in_d] and a position before next has
\* already been consumed
split_step(expr, st, i) ==
    IF i < st.next THEN st
    ELSE
      LET ch == Ch(expr, i) IN
      IF ch = "\\" /\ i + 1 <= Len(expr)
      THEN [st EXCEPT !.next = i + 2, !.buf = st.buf \o Slice(expr, i, i + 1)]
      ELSE IF ~st.in_d /\ ch = "'"
      THEN [st EXCEPT !.next = i + 1, !.buf = st.buf \o ch, !.in_s = ~st.in_s]
      ELSE IF ~st.in_s /\ ch = "\""
      THEN [st EXCEPT !.next = i + 1, !.buf = st.buf \o ch, !.in_d = ~st.in_d]
      ELSE IF ~st.in_s /\ ~st.in_d
      THEN LET d2 == IF ch = "(" THEN st.depth + 1
                     ELSE IF ch = ")" /\ st.depth > 0 THEN st.depth - 1
                     ELSE st.depth
           IN IF d2 = 0 /\ or_match(expr, i)
              THEN [st EXCEPT !.next = i + 2, !.buf = "", !.out = Append(st.out, strip(st.buf)), !.depth = d2]
              ELSE [st EXCEPT !.next = i + 1, !.buf = st.buf \o ch, !.depth = d2]
      ELSE [st EXCEPT !.next = i + 1, !.buf = st.buf \o ch]

split_scan(expr) ==
    LET st == FoldRange(LAMBDA t, i : split_step(expr, t, i),
                        [next |-> 1, buf |-> "", out |-> <<>>, depth |-> 0, in_s |-> FALSE, in_d |-> FALSE],
                        1, Len(expr))
    IN Append(st.out, strip(st.buf))

_split_top_level(expr) == SelectNonEmpty(invoke("split_scan", <<expr>>))

(***************************************************************************)
(* Row-number clauses                                                      *)
(***************************************************************************)
\* end of the row-number spelling starting at i, for each way the
\* alternation (?:BT?__rownum__BT?|row(?:_?number)?|index) can match; the
\* alternatives are listed in the order the regex engine tries them.
rownum_name_ends(s, i) ==
    LET t0 == IF Ch(s, i) = BT THEN i + 1 ELSE i
        a1 == IF StartsAtCI(s, t0, "__rownum__")
              THEN (IF Ch(s, t0 + 10) = BT THEN <<t0 + 11, t0 + 10>> ELSE <<t0 + 10>>)
              ELSE <<>>
        a2 == IF StartsAtCI(s, i, "row")
              THEN (IF StartsAtCI(s, i + 3, "_number") THEN <<i + 10>> ELSE <<>>)
                   \o (IF StartsAtCI(s, i + 3, "number") THEN <<i + 9>> ELSE <<>>)
                   \o <<i + 3>>
              ELSE <<>>
        a3 == IF StartsAtCI(s, i, "index") THEN <<i + 5>> ELSE <<>>
    IN a1 \o a2 \o a3

\* \s*==\s*(\d+) from position j: <<start of digits, position after them>>,
\* or <<>> when it does not match
rownum_tail(s, j) ==
    LET k == SkipSpace(s, j)
        d == SkipSpace(s, k + 2)
        e == SkipDigits(s, d)
    IN IF StartsAt(s, k, "==") /\ e > d THEN <<d, e>> ELSE <<>>

\* _ROWNUM_RE matched at position i: <<n, position after the match>> or <<>>
rownum_match_at(s, i) ==
    LET ends == rownum_name_ends(s, i)
        good == SelectSeq(ends, LAMBDA j : rownum_tail(s, j) # <<>>)
    IN IF good = <<>> THEN <<>>
       ELSE LET t == rownum_tail(s, good[1])
            IN <<DigitsToNat(Slice(s, t[1], t[2] - 1)), t[2]>>

\* re.sub over the expression: one scan position per step; the state is
\* [next, acc, rownums]
rownum_step(expr, st, i) ==
    IF i < st.next THEN st
    ELSE LET m == invoke("rownum_match_at", <<expr, i>>)
         IN IF m # <<>>
            THEN [next |-> m[2], acc |-> st.acc \o " True ", rownums |-> Append(st.rownums, m[1])]
            ELSE [st EXCEPT !.next = i + 1, !.acc = st.acc \o Ch(expr, i)]

rownum_sub(expr) ==
    LET st == FoldRange(LAMBDA t, i : rownum_step(expr, t, i),
                        [next |-> 1, acc |-> "", rownums |-> <<>>], 1, Len(expr))
    IN [expr_wo |-> st.acc, rownums |-> st.rownums]

_remove_rownum_clauses(expr) == rownum_sub(expr)

(***************************************************************************)
(* Dataset (pandas DataFrame)                                              *)
(*                                                                         *)
(* A frame is [columns, numcols, rows]: the header names in order, the set *)
(* of columns with a numeric dtype, and the rows, each a sequence of cells *)
(* aligned with columns.  The index is the default RangeIndex: the row at  *)
(* position r (1-based here) has label r - 1.  A cell is null (NaN/None/   *)
(* NA), a string or an integer.                                            *)
(***************************************************************************)
Null == [k |-> "null", s |-> "", n |-> 0]

Str(t) == [k |-> "str", s |-> t, n |-> 0]

Num(v) == [k |-> "num", s |-> "", n |-> v]

NRows(df) == Len(df.rows)

RowSet(df) == 1..NRows(df)

ColSet(df) == {df.columns[i] : i \in 1..Len(df.columns)}

ColPos(df, c) == CHOOSE i \in 1..Len(df.columns) : df.columns[i] = c

Cell(df, r, c) == df.rows[r][ColPos(df, c)]

AllTrue(df) == [r \in RowSet(df) |-> TRUE]

AllFalse(df) == [r \in RowSet(df) |-> FALSE]

MaskAnd(a, b) == [r \in DOMAIN a |-> a[r] /\ b[r]]

MaskOr(a, b) == [r \in DOMAIN a |-> a[r] \/ b[r]]

MaskRows(m) == {r \in DOMAIN m : m[r]}

\* a numeric column holding a null is float64 (35 prints as 35.0), else int64
IntToStr(v) == IF v < 0 THEN "-" \o NatToStr(0 - v) ELSE NatToStr(v)

NumRepr(df, c, v) ==
    IF \E r \in RowSet(df) : Cell(df, r, c).k = "null"
    THEN IntToStr(v) \o ".0"
    ELSE IntToStr(v)

\* _to_string: Series.astype("string"), per cell
to_string_cell(df, c, x) ==
    IF x.k = "num" THEN Str(NumRepr(df, c, x.n)) ELSE x

_to_string(df, c) == [r \in RowSet(df) |-> to_string_cell(df, c, Cell(df, r, c))]

\* _to_numeric: pd.to_numeric(errors="coerce"), per cell; a text cell is
\* numeric when it is an optionally signed run of digits (surrounding blanks
\* allowed); the result is [ok, n], ok = FALSE standing for NaN
to_numeric_cell(x) ==
    IF x.k = "num" THEN [ok |-> TRUE, n |-> x.n]
    ELSE IF x.k = "null" THEN [ok |-> FALSE, n |-> 0]
    ELSE LET t == strip(x.s)
             neg == Ch(t, 1) = "-"
             d == IF neg \/ Ch(t, 1) = "+" THEN Slice(t, 2, Len(t)) ELSE t
         IN IF d # "" /\ SkipDigits(d, 1) = Len(d) + 1
            THEN [ok |-> TRUE, n |-> IF neg THEN 0 - DigitsToNat(d) ELSE DigitsToNat(d)]
            ELSE [ok |-> FALSE, n |-> 0]

_to_numeric(df, c) == [r \in RowSet(df) |-> to_numeric_cell(Cell(df, r, c))]

\* float(val) of a literal digits[.digits], kept exact as num / den
LitNum(val) ==
    LET dot == IndexOf(val, ".", 1)
        ip == IF dot = 0 THEN val ELSE Slice(val, 1, dot - 1)
        fp == IF dot = 0 THEN "" ELSE Slice(val, dot + 1, Len(val))
    IN [num |-> DigitsToNat(ip \o fp), den |-> 10 ^ Len(fp)]

\* v <op> lit for an integer v
NumCmp(v, op, lit) ==
    LET a == v * lit.den
        b == lit.num
    IN CASE op = ">=" -> a >= b
         [] op = "<=" -> a <= b
         [] op = ">" -> a > b
         [] op = "<" -> a < b
         [] op = "==" -> a = b
         [] OTHER -> a # b

(***************************************************************************)
(* _normalize_row_filter                                                   *)
(***************************************************************************)
\* sorted(headers, key=len, reverse=True): longest first, ties in header order
RECURSIVE sort_by_len_desc(_)
sort_by_len_desc(hs) ==
    IF hs = <<>> THEN <<>>
    ELSE LET best == CHOOSE i \in 1..Len(hs) :
                       /\ \A j \in 1..Len(hs) : Len(hs[j]) <= Len(hs[i])
                       /\ \A j \in 1..(i - 1) : Len(hs[j]) < Len(hs[i])
         IN <<hs[best]>> \o sort_by_len_desc(SubSeq(hs, 1, best - 1) \o SubSeq(hs, best + 1, Len(hs)))

\* re.sub compiles its replacement string as a template before it searches:
\* in the replacement BT col BT a backslash of the header that is last, or is
\* followed by a digit 1-9 (no such group) or by an ASCII letter that is not
\* an escape, raises re.error; "\\" and the other escapes are consumed in pairs.
RECURSIVE template_error(_, _)
template_error(col, i) ==
    IF i > Len(col) THEN FALSE
    ELSE IF Ch(col, i) # "\\" THEN template_error(col, i + 1)
    ELSE LET c == Ch(col, i + 1)
         IN \/ c = ""
            \/ (IsAlpha(c) /\ c \notin {"a", "b", "f", "n", "r", "t", "v"})
            \/ (IsDigit(c) /\ c # "0")
            \/ template_error(col, i + 2)

\* (?<!BT)(["'])col\1(?!BT) -> BT col BT
quoted_col_end(q, col, i) ==
    LET c == Ch(q, i)
        e == i + 1 + Len(col)
    IN IF /\ c \in {"'", "\""}
          /\ Ch(q, i - 1) # BT
          /\ StartsAt(q, i + 1, col)
          /\ Ch(q, e) = c
          /\ Ch(q, e + 1) # BT
       THEN e + 1 ELSE 0

sub_quoted_col(q, col) == re_sub(q, LAMBDA i : quoted_col_end(q, col, i), LAMBDA i : bq(col))

\* the lookahead (?=\s*(?:\.str\b|\.astype\b|\.isin\b|\)|\]|\b(?:in|not\s+in)\b|==|!=|>=|<=|>|<))
\* tried from position e
bare_col_lookahead(q, e) ==
    LET k == SkipSpace(q, e)
        dotted(w) == StartsAt(q, k, w) /\ ~IsWord(Ch(q, k + Len(w)))
        n2 == SkipSpace(q, k + 3)
    IN \/ dotted(".str") \/ dotted(".astype") \/ dotted(".isin")
       \/ Ch(q, k) \in {")", "]", ">", "<"}
       \/ StartsAt(q, k, "==") \/ StartsAt(q, k, "!=")
       \/ (/\ ~IsWord(Ch(q, k - 1))
           /\ \/ (StartsAt(q, k, "in") /\ ~IsWord(Ch(q, k + 2)))
              \/ (StartsAt(q, k, "not") /\ n2 > k + 3 /\ StartsAt(q, n2, "in")
                  /\ ~IsWord(Ch(q, n2 + 2))))

\* (?<![BT"\w])col(?=...) -> BT col BT
bare_col_end(q, col, i) ==
    LET p == Ch(q, i - 1)
    IN IF /\ col # ""
          /\ StartsAt(q, i, col)
          /\ p # BT /\ p # "\"" /\ ~IsWord(p)
          /\ bare_col_lookahead(q, i + Len(col))
       THEN i + Len(col) ELSE 0

sub_bare_col(q, col) == re_sub(q, LAMBDA i : bare_col_end(q, col, i), LAMBDA i : bq(col))

RECURSIVE fold_cols(_, _, _)
fold_cols(Op(_, _), q, cols) ==
    IF cols = <<>> THEN q ELSE fold_cols(Op, Op(q, Head(cols)), Tail(cols))

quote_cols(q, col) == sub_quoted_col(q, col)

bare_cols(q, col) == sub_bare_col(q, col)

\* first word of ws (in order) that starts at position k, "" if none;
\* ci = TRUE compares whatever the case
word_at(q, k, ws, ci) ==
    LET hit == SelectSeq(ws, LAMBDA w : IF ci THEN StartsAtCI(q, k, w) ELSE StartsAt(q, k, w))
    IN IF hit = <<>> THEN "" ELSE hit[1]

RawStrOps == <<"contains", "match", "fullmatch", "replace">>

\* (\.str\.(?:contains|match|fullmatch|replace)\(\s*)(['"]) at position i:
\* position of the quote, 0 if no match
raw_prefix_quote(q, i) ==
    LET w == invoke("word_at", <<q, i + 5, RawStrOps, FALSE>>)
        p == i + 5 + Len(w)
        o == SkipSpace(q, p + 1)
    IN IF StartsAt(q, i, ".str.") /\ w # "" /\ Ch(q, p) = "(" /\ Ch(q, o) \in {"'", "\""}
       THEN o ELSE 0

\* step 3: the first argument of .str.contains/.match/.fullmatch/.replace
\* becomes a raw string (\1r\2)
raw_string_args(q) ==
    re_sub(q, LAMBDA i : IF raw_prefix_quote(q, i) > 0 THEN raw_prefix_quote(q, i) + 1 ELSE 0,
              LAMBDA i : Slice(q, i, raw_prefix_quote(q, i) - 1) \o "r" \o Ch(q, raw_prefix_quote(q, i)))

\* \.astype\(\s*str\s*\) at position i: position after the match, 0 if none
astype_bare_end(q, i) ==
    LET a == SkipSpace(q, i + 8)
        b == SkipSpace(q, a + 3)
    IN IF StartsAt(q, i, ".astype(") /\ StartsAt(q, a, "str") /\ Ch(q, b) = ")" THEN b + 1 ELSE 0

\* \.astype\(\s*["']str["']\s*\) at position i
astype_quoted_end(q, i) ==
    LET a == SkipSpace(q, i + 8)
        b == SkipSpace(q, a + 5)
    IN IF /\ StartsAt(q, i, ".astype(")
          /\ Ch(q, a) \in {"'", "\""} /\ StartsAt(q, a + 1, "str") /\ Ch(q, a + 4) \in {"'", "\""}
          /\ Ch(q, b) = ")"
       THEN b + 1 ELSE 0

\* step 4: astype(str) and astype("str") become astype('string')
fix_astype(q) ==
    LET q1 == re_sub(q, LAMBDA i : astype_bare_end(q, i), LAMBDA i : ".astype('string')")
    IN re_sub(q1, LAMBDA i : astype_quoted_end(q1, i), LAMBDA i : ".astype('string')")

\* (?:True|False) at position k: position after it, 0 if none
bool_lit_end(q, k, ci) ==
    LET w == invoke("word_at", <<q, k, <<"true", "false">>, TRUE>>)
        x == invoke("word_at", <<q, k, <<"True", "False">>, FALSE>>)
    IN IF ci THEN (IF w = "" THEN 0 ELSE k + Len(w)) ELSE (IF x = "" THEN 0 ELSE k + Len(x))

\* kw\s*=\s*(?:True|False) at position k: position after it, 0 if none
kwarg_end(q, k, kw, ci) ==
    LET e == SkipSpace(q, k + Len(kw))
        v == SkipSpace(q, e + 1)
    IN IF (IF ci THEN StartsAtCI(q, k, kw) ELSE StartsAt(q, k, kw)) /\ Ch(q, e) = "="
       THEN bool_lit_end(q, v, ci) ELSE 0

\* \s*,\s*kw\s*=\s*(?:True|False) at position i
comma_kwarg_end(q, i, kw, ci) ==
    LET c == SkipSpace(q, i)
    IN IF Ch(q, c) = "," THEN kwarg_end(q, SkipSpace(q, c + 1), kw, ci) ELSE 0

\* case\s*=\s*(?:True|False)\s*,\s* at position i
kwarg_comma_end(q, i) ==
    LET e == kwarg_end(q, i, "case", FALSE)
        c == SkipSpace(q, e)
    IN IF e > 0 /\ Ch(q, c) = "," THEN SkipSpace(q, c + 1) ELSE 0

\* _strip_case_for_prefix on the text between the parentheses
strip_case_inner(inner) ==
    LET inner2 == re_sub(inner, LAMBDA i : invoke("comma_kwarg_end", <<inner, i, "case", FALSE>>), LAMBDA i : "")
    IN re_sub(inner2, LAMBDA i : kwarg_comma_end(inner2, i), LAMBDA i : "")

PrefixOps == <<"startswith", "endswith">>

\* (?P<prefix>\.str\.(?:startswith|endswith))\(\s*(?P<inner>[^)]*?)\) at
\* position i: [ok, prefix, inner, next]
prefix_call_at(q, i) ==
    LET w == invoke("word_at", <<q, i + 5, PrefixOps, FALSE>>)
        p == i + 5 + Len(w)
        a == SkipSpace(q, p + 1)
        c == IndexOf(q, ")", p + 1)
    IN IF StartsAt(q, i, ".str.") /\ w # "" /\ Ch(q, p) = "(" /\ c > 0
       THEN [ok |-> TRUE, prefix |-> Slice(q, i, p - 1),
             inner |-> (IF a > c THEN "" ELSE Slice(q, a, c - 1)), next |-> c + 1]
       ELSE [ok |-> FALSE, prefix |-> "", inner |-> "", next |-> 0]

\* step 5: drop the unsupported case= keyword of .str.startswith/.endswith
strip_case_kwarg(q) ==
    re_sub(q, LAMBDA i : prefix_call_at(q, i).next,
              LAMBDA i : prefix_call_at(q, i).prefix \o "(" \o strip_case_inner(prefix_call_at(q, i).inner) \o ")")

(***************************************************************************)
(* Clause scanners of the manual matcher                                   *)
(***************************************************************************)
\* BT([^BT]+)BT at position i: position of the closing backtick, 0 if none
bt_name_end(q, i) ==
    IF Ch(q, i) # BT THEN 0
    ELSE LET j == IndexOf(q, BT, i + 1) IN IF j > i + 1 THEN j ELSE 0

\* BT([^BT]+)BT\s*==\s*(['"])(.*?)\2 at position i:
\* [ok, col, val, next] with next the position after the match
eq_clause_at(q, i) ==
    LET j == invoke("bt_name_end", <<q, i>>)
        k == SkipSpace(q, j + 1)
        o == SkipSpace(q, k + 2)
        c == IndexOfOnLine(q, Ch(q, o), o + 1)
    IN IF j > 0 /\ StartsAt(q, k, "==") /\ Ch(q, o) \in {"'", "\""} /\ c > 0
       THEN [ok |-> TRUE, col |-> Slice(q, i + 1, j - 1), val |-> Slice(q, o + 1, c - 1), next |-> c + 1]
       ELSE [ok |-> FALSE, col |-> "", val |-> "", next |-> i + 1]

\* re.findall of the equality clause
find_eq_clauses(q) == re_findall(q, LAMBDA i : eq_clause_at(q, i))

CmpOps == <<">=", "<=", ">", "<">>

\* first operator of ops (in order) that starts at position k, "" if none
op_at(q, k, ops) ==
    LET hit == SelectSeq(ops, LAMBDA o : StartsAt(q, k, o))
    IN IF hit = <<>> THEN "" ELSE hit[1]

\* [0-9]+(?:\.[0-9]+)? at position d: position after the number, d if none
number_end(q, d) ==
    LET e == SkipDigits(q, d)
        f == SkipDigits(q, e + 1)
    IN IF e > d /\ Ch(q, e) = "." /\ f > e + 1 THEN f ELSE e

\* BT([^BT]+)BT\s*(>=|<=|>|<)\s*([0-9]+(?:\.[0-9]+)?) at position i
num_clause_at(q, i) ==
    LET j == invoke("bt_name_end", <<q, i>>)
        k == SkipSpace(q, j + 1)
        op == op_at(q, k, CmpOps)
        d == SkipSpace(q, k + Len(op))
        e == number_end(q, d)
    IN IF j > 0 /\ op # "" /\ e > d
       THEN [ok |-> TRUE, col |-> Slice(q, i + 1, j - 1), op |-> op, val |-> Slice(q, d, e - 1), next |-> e]
       ELSE [ok |-> FALSE, col |-> "", op |-> "", val |-> "", next |-> i + 1]

\* re.findall of the numeric comparison clause
find_num_clauses(q) == re_findall(q, LAMBDA i : num_clause_at(q, i))

StrOps == <<"contains", "match", "fullmatch", "startswith", "endswith">>

\* (?:\.astype\(\s*(?:str|["'](?:str|string)["'])\s*\))? at position k:
\* position after the optional group
astype_opt_end(q, k, ci) ==
    LET at(w) == IF ci THEN StartsAtCI(q, k, w) ELSE StartsAt(q, k, w)
        a == SkipSpace(q, k + 8)
        isq(c) == c \in {"'", "\""}
        word(i, w) == IF ci THEN StartsAtCI(q, i, w) ELSE StartsAt(q, i, w)
        b1 == SkipSpace(q, a + 3)
        b2 == SkipSpace(q, a + 5)
        b3 == SkipSpace(q, a + 8)
    IN IF ~at(".astype(") THEN k
       ELSE IF word(a, "str") /\ Ch(q, b1) = ")" THEN b1 + 1
       ELSE IF isq(Ch(q, a)) /\ word(a + 1, "str") /\ isq(Ch(q, a + 4)) /\ Ch(q, b2) = ")" THEN b2 + 1
       ELSE IF isq(Ch(q, a)) /\ word(a + 1, "string") /\ isq(Ch(q, a + 7)) /\ Ch(q, b3) = ")" THEN b3 + 1
       ELSE k

\* the tail (?:\s*,\s*case\s*=\s*(True|False))?(?:\s*,\s*na\s*=\s*(True|False))?\s*\)
\* from position j, the alternatives in the order the engine tries them:
\* [ok, case, na, next] with case/na the captured words ("" when absent)
str_tail(q, j) ==
    LET c1 == invoke("comma_kwarg_end", <<q, j, "case", TRUE>>)
        n1 == IF c1 > 0 THEN invoke("comma_kwarg_end", <<q, c1, "na", TRUE>>) ELSE 0
        n0 == invoke("comma_kwarg_end", <<q, j, "na", TRUE>>)
        close(e) == e > 0 /\ Ch(q, SkipSpace(q, e)) = ")"
        word_before(e) == invoke("casefold", <<IF invoke("casefold", <<Slice(q, e - 4, e - 1)>>) = "true" THEN "true" ELSE "false">>)
        res(cs, na, e) == [ok |-> TRUE, case |-> cs, na |-> na, next |-> SkipSpace(q, e) + 1]
    IN IF close(n1) THEN res(word_before(c1), word_before(n1), n1)
       ELSE IF close(c1) THEN res(word_before(c1), "", c1)
       ELSE IF close(n0) THEN res("", word_before(n0), n0)
       ELSE IF close(j) THEN res("", "", j)
       ELSE [ok |-> FALSE, case |-> "", na |-> "", next |-> 0]

\* positions of the character c on the line of position i, from i on, ascending
quote_closers(q, c, i) ==
    LET nl == IndexOf(q, "\n", i)
        last == IF nl = 0 THEN Len(q) ELSE nl - 1
    IN SelectSeq([k \in 1..(IF last >= i THEN last - i + 1 ELSE 0) |-> i + k - 1], LAMBDA k : Ch(q, k) = c)

\* str_op_pat (re.I) at position i: [ok, col, op, pat, case, na, next]
str_clause_at(q, i) ==
    LET j == invoke("bt_name_end", <<q, i>>)
        a == invoke("astype_opt_end", <<q, SkipSpace(q, j + 1), TRUE>>)
        \* the blanks before .astype are given back when the group is absent
        d == SkipSpace(q, a)
        op == invoke("word_at", <<q, d + 5, StrOps, TRUE>>)
        p == d + 5 + Len(op)
        r == SkipSpace(q, p + 1)
        o == IF invoke("casefold", <<Ch(q, r)>>) = "r" /\ Ch(q, r + 1) \in {"'", "\""} THEN r + 1 ELSE r
        cl == SelectSeq(quote_closers(q, Ch(q, o), o + 1), LAMBDA c : invoke("str_tail", <<q, c + 1>>).ok)
        none == [ok |-> FALSE, col |-> "", op |-> "", pat |-> "", case |-> "", na |-> "", next |-> 0]
    IN IF /\ j > 0 /\ StartsAtCI(q, d, ".str.") /\ op # "" /\ Ch(q, p) = "("
          /\ Ch(q, o) \in {"'", "\""} /\ cl # <<>>
       THEN [ok |-> TRUE, col |-> Slice(q, i + 1, j - 1), op |-> op, pat |-> Slice(q, o + 1, cl[1] - 1),
             case |-> invoke("str_tail", <<q, cl[1] + 1>>).case, na |-> invoke("str_tail", <<q, cl[1] + 1>>).na,
             next |-> invoke("str_tail", <<q, cl[1] + 1>>).next]
       ELSE none

\* str_op_pat.finditer
find_str_clauses(q) == re_findall(q, LAMBDA i : invoke("str_clause_at", <<q, i>>))

_has_string_equality(q) == invoke("find_eq_clauses", <<q>>) # <<>>

(***************************************************************************)
(* _mask_from_clauses: AND of every recognised clause; [some, m] with      *)
(* some = FALSE standing for None                                          *)
(***************************************************************************)
NoMask == [some |-> FALSE, m |-> <<>>]

SomeMask(m) == [some |-> TRUE, m |-> m]

\* _and(acc, cur)
and_acc(acc, cur) == IF acc.some THEN SomeMask(MaskAnd(acc.m, cur)) ELSE SomeMask(cur)

\* s.str.casefold().eq(val.casefold()).fillna(False)
eq_ci_mask(df, col, val) ==
    LET s == invoke("_to_string", <<df, col>>)
    IN [r \in RowSet(df) |-> s[r].k # "null" /\ invoke("casefold", <<s[r].s>>) = invoke("casefold", <<val>>)]

\* s.notna() & (s <op> float(val))
num_cmp_mask(df, col, op, val) ==
    LET s == invoke("_to_numeric", <<df, col>>)
    IN [r \in RowSet(df) |-> s[r].ok /\ NumCmp(s[r].n, op, LitNum(val))]

RECURSIVE fold_eq(_, _, _)
fold_eq(df, cl, acc) ==
    IF cl = <<>> THEN acc
    ELSE fold_eq(df, Tail(cl),
                 IF Head(cl).col \in ColSet(df)
                 THEN and_acc(acc, invoke("eq_ci_mask", <<df, Head(cl).col, Head(cl).val>>))
                 ELSE acc)

RECURSIVE fold_num(_, _, _)
fold_num(df, cl, acc) ==
    IF cl = <<>> THEN acc
    ELSE fold_num(df, Tail(cl),
                  IF Head(cl).col \in ColSet(df)
                  THEN and_acc(acc, invoke("num_cmp_mask", <<df, Head(cl).col, Head(cl).op, Head(cl).val>>))
                  ELSE acc)

\* text t occurs in s at position i
occurs_at(s, t, i) == Slice(s, i, i + Len(t) - 1) = t

\* the five .str operations on one text, for a pattern without regex
\* metacharacters (the only patterns the filters of this model carry);
\* case = FALSE compares case-insensitively (re.I, or lower() on both sides
\* for startswith/endswith)
str_op_text(op, text, pat, case) ==
    LET t == IF case THEN text ELSE invoke("casefold", <<text>>)
        p == IF case THEN pat ELSE invoke("casefold", <<pat>>)
    IN CASE op = "contains" -> \E i \in 1..(Len(t) + 1) : occurs_at(t, p, i)
         [] op = "match" -> occurs_at(t, p, 1)
         [] op = "fullmatch" -> t = p
         [] op = "startswith" -> occurs_at(t, p, 1)
         [] OTHER -> Len(p) <= Len(t) /\ occurs_at(t, p, Len(t) - Len(p) + 1)

\* s.str.<op>(pat, case=case, na=na).fillna(False)
str_op_mask(df, cl) ==
    LET s == invoke("_to_string", <<df, cl.col>>)
        case == cl.case = "true"
        na == cl.na = "true"
    IN [r \in RowSet(df) |-> IF s[r].k = "null" THEN na ELSE str_op_text(cl.op, s[r].s, cl.pat, case)]

RECURSIVE fold_str(_, _, _)
fold_str(df, cl, acc) ==
    IF cl = <<>> THEN acc
    ELSE fold_str(df, Tail(cl),
                  IF Head(cl).col \in ColSet(df) THEN and_acc(acc, invoke("str_op_mask", <<df, Head(cl)>>)) ELSE acc)

_mask_from_clauses(df, q) ==
    fold_str(df, invoke("find_str_clauses", <<q>>),
             fold_num(df, invoke("find_num_clauses", <<q>>), fold_eq(df, invoke("find_eq_clauses", <<q>>), NoMask)))

(***************************************************************************)
(* df.query(q, engine="python"): strict evaluation.  The grammar covered   *)
(* is a conjunction (and / &) of True and of comparisons of a backtick-    *)
(* quoted column with a quoted or numeric literal; any other text raises.  *)
(* [ok, m]: ok = FALSE stands for an exception.                            *)
(***************************************************************************)
QueryOps == <<"==", "!=", ">=", "<=", ">", "<">>

QFail == [ok |-> FALSE, scalar |-> FALSE, m |-> <<>>, next |-> 0]

\* object column against a quoted literal: == and != compare the cell with
\* the literal exactly; a numeric cell never equals a string
str_cmp_mask(df, col, op, val) ==
    [r \in RowSet(df) |->
        LET x == Cell(df, r, col)
            same == x.k = "str" /\ x.s = val
        IN IF op = "==" THEN same ELSE ~same]

\* column against a numeric literal; == and != never raise, an ordered
\* comparison raises TypeError as soon as one cell is a string
num_query_mask(df, col, op, neg, val) ==
    LET lit == [num |-> IF neg THEN 0 - LitNum(val).num ELSE LitNum(val).num, den |-> LitNum(val).den]
    IN [r \in RowSet(df) |->
          LET x == Cell(df, r, col)
          IN IF x.k = "num" THEN NumCmp(x.n, op, lit) ELSE op = "!="]

query_atom(df, q, i0) ==
    LET i == SkipSpace(q, i0)
        j == invoke("bt_name_end", <<q, i>>)
        col == Slice(q, i + 1, j - 1)
        k == SkipSpace(q, j + 1)
        op == op_at(q, k, QueryOps)
        l == SkipSpace(q, k + Len(op))
        qc == IndexOfOnLine(q, Ch(q, l), l + 1)
        neg == Ch(q, l) = "-"
        d == IF neg THEN l + 1 ELSE l
        e == number_end(q, d)
    IN IF StartsAt(q, i, "True") /\ ~IsWord(Ch(q, i + 4))
       THEN [ok |-> TRUE, scalar |-> TRUE, m |-> AllTrue(df), next |-> i + 4]
       ELSE IF j = 0 \/ col \notin ColSet(df) \/ op = "" THEN QFail
       ELSE IF Ch(q, l) \in {"'", "\""}
       THEN (IF qc > 0 /\ op \in {"==", "!="} /\ IndexOf(Slice(q, l + 1, qc - 1), "\\", 1) = 0
             THEN [ok |-> TRUE, scalar |-> FALSE,
                   m |-> str_cmp_mask(df, col, op, Slice(q, l + 1, qc - 1)), next |-> qc + 1]
             ELSE QFail)
       ELSE IF e > d
       THEN (IF op \in {"==", "!="} \/ \A r \in RowSet(df) : Cell(df, r, col).k # "str"
             THEN [ok |-> TRUE, scalar |-> FALSE,
                   m |-> num_query_mask(df, col, op, neg, Slice(q, d, e - 1)), next |-> e]
             ELSE QFail)
       ELSE QFail

\* the conjunction, left to right
RECURSIVE query_conj(_, _, _, _)
query_conj(df, q, i0, acc) ==
    LET a == invoke("query_atom", <<df, q, i0>>)
        n == SkipSpace(q, a.next)
        cur == [ok |-> TRUE, scalar |-> acc.scalar /\ a.scalar, m |-> MaskAnd(acc.m, a.m), next |-> n]
    IN IF ~a.ok THEN QFail
       ELSE IF n > Len(q) THEN cur
       ELSE IF StartsAt(q, n, "and") /\ ~IsWord(Ch(q, n + 3))
       THEN query_conj(df, q, n + 3, cur)
       ELSE IF Ch(q, n) = "&" THEN query_conj(df, q, n + 1, cur)
       ELSE QFail

\* a constant expression evaluates to the scalar True and df.loc[True] raises
df_query(df, q) ==
    LET r == query_conj(df, q, 1, [ok |-> TRUE, scalar |-> TRUE, m |-> AllTrue(df), next |-> 1])
    IN IF r.ok /\ ~r.scalar THEN [ok |-> TRUE, m |-> r.m] ELSE [ok |-> FALSE, m |-> <<>>]

(***************************************************************************)
(* _eval_basic_query: the three tiers for one expression                   *)
(***************************************************************************)
\* re.sub(r'(?i)\bW\b', sym, q) for a word W
word_end(q, w, i) ==
    IF /\ StartsAtCI(q, i, w)
       /\ ~IsWord(Ch(q, i - 1))
       /\ ~IsWord(Ch(q, i + Len(w)))
    THEN i + Len(w) ELSE 0

sub_word(q, w, sym) == re_sub(q, LAMBDA i : word_end(q, w, i), LAMBDA i : sym)

rewrite_and_or(q) == sub_word(sub_word(q, "and", "&"), "or", "|")

\* the zero-hit safety net shared by the two strict attempts
zero_hit_fallback(df, q, strict, path, used) ==
    LET m_ci == invoke("_mask_from_clauses", <<df, q>>)
    IN IF MaskRows(strict.m) = {} /\ invoke("_has_string_equality", <<q>>) /\ m_ci.some
       THEN [mask |-> m_ci.m, path |-> path \o "_zero_and_fallback", used |-> used]
       ELSE [mask |-> strict.m, path |-> path, used |-> used]

\* the tiers with the manual matcher tried before the strict evaluations
_eval_basic_query_manual_first(df, q) ==
    LET t1 == invoke("df_query", <<df, q>>)
        rew == invoke("rewrite_and_or", <<q>>)
        t2 == invoke("df_query", <<df, rew>>)
        m == invoke("_mask_from_clauses", <<df, q>>)
    IN IF m.some THEN [mask |-> m.m, path |-> "fallback_and", used |-> q]
       ELSE IF t1.ok THEN invoke("zero_hit_fallback", <<df, q, t1, "query", q>>)
       ELSE IF t2.ok THEN invoke("zero_hit_fallback", <<df, q, t2, "query_rewrite", rew>>)
       ELSE [mask |-> AllTrue(df), path |-> "all_false", used |-> q]

_eval_basic_query(df, q) ==
    LET t1 == invoke("df_query", <<df, q>>)
        rew == invoke("rewrite_and_or", <<q>>)
        t2 == invoke("df_query", <<df, rew>>)
        m == invoke("_mask_from_clauses", <<df, q>>)
    IN IF t1.ok THEN invoke("zero_hit_fallback", <<df, q, t1, "query", q>>)
       ELSE IF t2.ok THEN invoke("zero_hit_fallback", <<df, q, t2, "query_rewrite", rew>>)
       ELSE IF m.some THEN [mask |-> m.m, path |-> "fallback_and", used |-> q]
       ELSE [mask |-> AllTrue(df), path |-> "all_false", used |-> q]

(***************************************************************************)
(* _mask_group_with_rownum, _mask_from_query_with_rownum                   *)
(***************************************************************************)
\* the row numbers taken as positions in the whole dataset, whatever idxs
pick_rows_of_dataset(df, idxs, rownums) ==
    [r \in RowSet(df) |-> \E t \in 1..Len(rownums) : rownums[t] = r]

\* the rows at the 1-based positions rownums of the ordered row list idxs
pick_rows(df, idxs, rownums) ==
    LET picks == {idxs[rownums[t]] : t \in {u \in 1..Len(rownums) : rownums[u] >= 1 /\ rownums[u] <= Len(idxs)}}
    IN [r \in RowSet(df) |-> r \in picks]

\* list(df.index[mask]): the selected rows in dataset order
rows_of(df, mask) == SelectSeq([r \in RowSet(df) |-> r], LAMBDA r : mask[r])

\* the group evaluated with its row-number clauses dropped
_mask_group_dropping_rownum(df, group_expr) ==
    LET rm == invoke("_remove_rownum_clauses", <<group_expr>>)
        expr_wo_rn == IF strip(rm.expr_wo) = "" THEN "True" ELSE strip(rm.expr_wo)
        base == invoke("_eval_basic_query", <<df, expr_wo_rn>>)
    IN [mask |-> base.mask, path |-> base.path, base |-> base.mask, rownums |-> rm.rownums]

_mask_group_with_rownum(df, group_expr) ==
    LET rm == invoke("_remove_rownum_clauses", <<group_expr>>)
        expr_wo_rn == IF strip(rm.expr_wo) = "" THEN "True" ELSE strip(rm.expr_wo)
        base == invoke("_eval_basic_query", <<df, expr_wo_rn>>)
    IN IF rm.rownums = <<>>
       THEN [mask |-> base.mask, path |-> base.path, base |-> base.mask, rownums |-> rm.rownums]
       ELSE IF invoke("casefold", <<expr_wo_rn>>) = "true"
       THEN [mask |-> pick_rows(df, rows_of(df, AllTrue(df)), rm.rownums), path |-> "rownum_only",
             base |-> base.mask, rownums |-> rm.rownums]
       ELSE [mask |-> pick_rows(df, rows_of(df, base.mask), rm.rownums), path |-> base.path \o "+rownum",
             base |-> base.mask, rownums |-> rm.rownums]

\* the OR-groups of the normalised filter with the mask of each
or_groups(df, norm) ==
    LET parts == IF invoke("_split_top_level", <<norm>>) = <<>> THEN <<norm>> ELSE invoke("_split_top_level", <<norm>>)
    IN [g \in 1..Len(parts) |-> [expr |-> parts[g]] @@ invoke("_mask_group_with_rownum", <<df, parts[g]>>)]

RECURSIVE union_groups(_, _)
union_groups(gs, acc) ==
    IF gs = <<>> THEN acc ELSE union_groups(Tail(gs), MaskOr(acc, Head(gs).mask))

_mask_from_query_with_rownum(df, norm) ==
    LET gs == invoke("or_groups", <<df, norm>>) IN union_groups(Tail(gs), Head(gs).mask)

(***************************************************************************)
(* _ensure_mask_from_query                                                 *)
(***************************************************************************)
\* re.fullmatch(r"\s*BT?([A-Za-z0-9_ ]+)BT?\s*==\s*['"](.+?)['"]\s*", query):
\* [ok, col, val] with col already stripped.  The lazy (.+?) must leave only
\* a quote and blanks up to the end, so val runs to the last non-blank
\* character, which has to be a quote.
name_char(c) == IsWord(c) \/ c = " "

skip_name(s, i) == SkipWhile(name_char, s, i)

soft_recall_match(query) ==
    LET a == SkipSpace(query, 1)
        b == IF Ch(query, a) = BT THEN a + 1 ELSE a
        c0 == skip_name(query, b)
        name == Slice(query, b, c0 - 1)
        c == IF Ch(query, c0) = BT THEN c0 + 1 ELSE c0
        k == SkipSpace(query, c)
        o == SkipSpace(query, k + 2)
        last == RSkipSpace(query, Len(query))
        val == Slice(query, o + 1, last - 1)
    IN IF /\ strip(name) # ""
          /\ StartsAt(query, k, "==")
          /\ Ch(query, o) \in {"'", "\""}
          /\ last >= o + 2
          /\ Ch(query, last) \in {"'", "\""}
          /\ IndexOf(val, "\n", 1) = 0
       THEN [ok |-> TRUE, col |-> strip(name), val |-> val]
       ELSE [ok |-> FALSE, col |-> "", val |-> ""]

headers_raise(headers) == \E i \in 1..Len(headers) : template_error(headers[i], 1)

\* steps of _normalize_row_filter on a non-empty query
normalize_steps(query, headers) ==
    LET hs == sort_by_len_desc(headers)
        q1 == fold_cols(quote_cols, query, hs)
        q2 == fold_cols(bare_cols, q1, hs)
    IN strip_case_kwarg(fix_astype(raw_string_args(q2)))

\* [raised, q]
_normalize_row_filter(query, headers) ==
    IF query = "" THEN [raised |-> FALSE, q |-> query]
    ELSE IF headers_raise(headers) THEN [raised |-> TRUE, q |-> ""]
    ELSE [raised |-> FALSE, q |-> normalize_steps(query, headers)]

\* (lhs.notna() & (lhs == rhs)).fillna(False)
soft_recall_mask(df, col, val) == invoke("eq_ci_mask", <<df, col, val>>)

\* [raised, mask, norm, groups]
_ensure_mask_from_query(df, query) ==
    LET nrm == invoke("_normalize_row_filter", <<query, df.columns>>)
        gs == invoke("or_groups", <<df, nrm.q>>)
        mask == invoke("_mask_from_query_with_rownum", <<df, nrm.q>>)
        sr == invoke("soft_recall_match", <<query>>)
    IN IF query = "" \/ strip(query) = ""
       THEN [raised |-> FALSE, mask |-> AllTrue(df), norm |-> query, groups |-> <<>>]
       ELSE IF nrm.raised
       THEN [raised |-> TRUE, mask |-> <<>>, norm |-> "", groups |-> <<>>]
       ELSE IF MaskRows(mask) = {} /\ sr.ok /\ sr.col \in ColSet(df)
       THEN [raised |-> FALSE, mask |-> invoke("soft_recall_mask", <<df, sr.col, sr.val>>), norm |-> nrm.q, groups |-> gs]
       ELSE [raised |-> FALSE, mask |-> mask, norm |-> nrm.q, groups |-> gs]

(***************************************************************************)
(* Columns, flags, display regex                                           *)
(***************************************************************************)
\* text_columns: the columns of dtype object/string, in header order
text_columns(df) == SelectSeq(df.columns, LAMBDA c : c \notin df.numcols)

\* _auto_columns; columns is [some, v], some = FALSE standing for None
_auto_columns(df, intent, pattern, columns) ==
    IF columns.some /\ columns.v # <<>> THEN columns.v
    ELSE IF invoke("casefold", <<intent>>) = "replace" /\ pattern = "^.*$" THEN df.columns
    ELSE text_columns(df)

\* _compile_flags: the set of re flags
_compile_flags(flags) ==
    LET f == {Ch(flags, i) : i \in 1..Len(flags)} \cap {"i", "m", "s", "x"}
    IN IF f = {} THEN {"i"} ELSE f

\* _MATCH_ALL_RE.match: ^\s*\^?\.\*\$?\s*$
_MATCH_ALL_RE(p) ==
    LET a == SkipSpace(p, 1)
        b == IF Ch(p, a) = "^" THEN a + 1 ELSE a
        c == IF Ch(p, b + 2) = "$" THEN b + 3 ELSE b + 2
        e == SkipSpace(p, c)
        \* $ without re.M also matches before one final newline, which \s* may
        \* leave unconsumed
        ok(k) == k = Len(p) + 1 \/ (k = Len(p) /\ Ch(p, k) = "\n")
    IN StartsAt(p, b, ".*") /\ \E k \in c..e : ok(k)

SpecialChars == "()[]{}?*+-|^$\\.&~# \t\n\r"

\* re.escape
re_escape(t) ==
    re_sub(t, LAMBDA i : IF PosIn(SpecialChars, Ch(t, i)) > 0 THEN i + 1 ELSE 0, LAMBDA i : "\\" \o Ch(t, i))

\* _loose_token_regex: escape, then every backslash followed by blanks
\* becomes the separator class
loose_sep_end(esc, i) ==
    IF Ch(esc, i) = "\\" /\ IsSpace(Ch(esc, i + 1)) THEN SkipSpace(esc, i + 1) ELSE 0

_loose_token_regex(token) ==
    re_sub(re_escape(token), LAMBDA i : loose_sep_end(re_escape(token), i), LAMBDA i : "[-_.:/\\s]*")

\* the .str clause of _display_regex_and_columns_from_row_filter at position
\* i (case-sensitive, no raw-string prefix).  The regex numbers its groups
\* col = 1, op = 2, quote = 3, val = 4 and closes the literal with \2, the
\* operation name: val runs lazily from the opening quote to the next
\* occurrence of the operation name on the line, and .*?\) then runs to the
\* first closing parenthesis of the line.  [ok, col, op, val, next]
disp_str_clause_at(q, i) ==
    LET j == invoke("bt_name_end", <<q, i>>)
        a == invoke("astype_opt_end", <<q, SkipSpace(q, j + 1), FALSE>>)
        d == SkipSpace(q, a)
        op == invoke("word_at", <<q, d + 5, StrOps, FALSE>>)
        p == d + 5 + Len(op)
        o == SkipSpace(q, p + 1)
        nl == IndexOf(q, "\n", o + 1)
        last == IF nl = 0 THEN Len(q) ELSE nl - 1
        again == {k \in (o + 1)..last : StartsAt(q, k, op) /\ k + Len(op) - 1 <= last
                                         /\ IndexOfOnLine(q, ")", k + Len(op)) > 0}
        k0 == CHOOSE k \in again : \A k2 \in again : k <= k2
    IN IF /\ j > 0 /\ StartsAt(q, d, ".str.") /\ op # "" /\ Ch(q, p) = "("
          /\ Ch(q, o) \in {"'", "\""} /\ again # {}
       THEN [ok |-> TRUE, col |-> Slice(q, i + 1, j - 1), op |-> op, val |-> Slice(q, o + 1, k0 - 1),
             next |-> IndexOfOnLine(q, ")", k0 + Len(op)) + 1]
       ELSE [ok |-> FALSE, col |-> "", op |-> "", val |-> "", next |-> 0]

\* the token a clause contributes, "" for none
str_token(cl) ==
    IF cl.val = "" THEN ""
    ELSE CASE cl.op = "startswith" -> "^" \o re_escape(cl.val)
           [] cl.op = "endswith" -> re_escape(cl.val) \o "$"
           [] cl.op \in {"match", "fullmatch"} -> cl.val
           [] OTHER -> _loose_token_regex(cl.val)

\* cols without repeats, first occurrence kept
RECURSIVE dedupe(_)
dedupe(cols) ==
    IF cols = <<>> THEN <<>>
    ELSE LET front == dedupe(SubSeq(cols, 1, Len(cols) - 1))
             last == cols[Len(cols)]
         IN IF \E i \in 1..Len(front) : front[i] = last THEN front ELSE Append(front, last)

RECURSIVE join(_, _)
join(parts, sep) ==
    IF parts = <<>> THEN ""
    ELSE IF Len(parts) = 1 THEN parts[1]
    ELSE join(SubSeq(parts, 1, Len(parts) - 1), sep) \o sep \o parts[Len(parts)]

\* [rx, cols]; rx = "" stands for None (a derived regex is never empty)
_display_regex_and_columns_from_row_filter(row_filter) ==
    LET sc == re_findall(row_filter, LAMBDA i : invoke("disp_str_clause_at", <<row_filter, i>>))
        ec == invoke("find_eq_clauses", <<row_filter>>)
        nc == invoke("find_num_clauses", <<row_filter>>)
        tokens == SelectNonEmpty([i \in 1..Len(sc) |-> str_token(sc[i])])
                  \o SelectNonEmpty([i \in 1..Len(ec) |-> IF ec[i].val = "" THEN "" ELSE re_escape(ec[i].val)])
        cols == dedupe([i \in 1..Len(sc) |-> sc[i].col] \o [i \in 1..Len(ec) |-> ec[i].col]
                       \o [i \in 1..Len(nc) |-> nc[i].col])
    IN IF row_filter = "" THEN [rx |-> "", cols |-> <<>>]
       ELSE [rx |-> IF tokens = <<>> THEN "" ELSE "(?:" \o join(tokens, "|") \o ")", cols |-> cols]

(***************************************************************************)
(* re.compile and the pattern methods, for the patterns a plan of this     *)
(* model carries: the match-all forms ^?.*$? and alternations of literal   *)
(* tokens, (?:t1|t2) or bare, a token being made of plain characters,      *)
(* backslash-escaped characters, the separator class [-_.:/\s]* and the    *)
(* anchors ^ and $.  Flags are the set made by _compile_flags.             *)
(***************************************************************************)
\* \d{lo,hi} from position i, greedy: the positions after the run that the
\* engine tries, longest first
digit_runs(t, i, lo, hi) ==
    LET n == SkipDigits(t, i) - i
        top == IF n > hi THEN hi ELSE n
    IN [k \in 1..(IF top >= lo THEN top - lo + 1 ELSE 0) |-> i + top - k + 1]

\* FALLBACKS of plan_v2.py (lines 51-57), the patterns of the rule-based planner
FallbackKeys == <<"email", "phone", "date", "url", "postcode">>

FALLBACKS(k) ==
    CASE k = "email" -> "[A-Za-z0-9._%+-]+@[A-Za-z0-9.-]+\\.[A-Za-z]{2,7}"
      [] k = "phone" -> "\\+?\\d[\\d\\-\\s()]{7,}\\d"
      [] k = "date" -> "(?:\\d{4}[/-]\\d{1,2}[/-]\\d{1,2}|\\d{1,2}[/-]\\d{1,2}[/-]\\d{2,4}|\\d{4}\\.\\d{1,2}\\.\\d{1,2})"
      [] k = "url" -> "https?://[^\\s]+"
      [] OTHER -> "\\b\\d{4,6}\\b"

local_char(c) == IsAlpha(c) \/ IsDigit(c) \/ c \in {".", "_", "%", "+", "-"}

domain_char(c) == IsAlpha(c) \/ IsDigit(c) \/ c \in {".", "-"}

\* FALLBACKS["email"] at position p: position after the match, 0 if none; the
\* domain gives back characters until a dot and two letters follow it
email_end(s, p) ==
    LET a == SkipWhile(local_char, s, p)
        b == SkipWhile(domain_char, s, a + 1)
        letters(e) == SkipWhile(IsAlpha, s, e + 1) - (e + 1)
        dots == {e \in (a + 2)..(b - 1) : Ch(s, e) = "." /\ letters(e) >= 2}
        e0 == CHOOSE e \in dots : \A x \in dots : x <= e
    IN IF a > p /\ Ch(s, a) = "@" /\ dots # {}
       THEN e0 + 1 + (IF letters(e0) > 7 THEN 7 ELSE letters(e0))
       ELSE 0

\* digits{lo1,hi1} sep digits{1,2} sep digits{lo3,hi3} from position i with
\* no word boundary: position after the match, 0 if none
plain_shape_end(t, i, seps, lo1, hi1, lo3, hi3) ==
    LET third(e2) == digit_runs(t, e2 + 1, lo3, hi3)
        second(e1) == SelectSeq(digit_runs(t, e1 + 1, 1, 2), LAMBDA e : Ch(t, e) \in seps /\ third(e) # <<>>)
        first == SelectSeq(digit_runs(t, i, lo1, hi1), LAMBDA e : Ch(t, e) \in seps /\ second(e) # <<>>)
    IN IF ~IsDigit(Ch(t, i)) \/ first = <<>> THEN 0
       ELSE third(second(first[1])[1])[1]

\* FALLBACKS["date"] at position i: its three alternatives in their order
date_fallback_end(t, i) ==
    LET a == invoke("plain_shape_end", <<t, i, {"/", "-"}, 4, 4, 1, 2>>)
        b == invoke("plain_shape_end", <<t, i, {"/", "-"}, 1, 2, 2, 4>>)
        c == invoke("plain_shape_end", <<t, i, {"."}, 4, 4, 1, 2>>)
    IN IF a > 0 THEN a ELSE IF b > 0 THEN b ELSE c

DotStarForms == {".*", "^.*", ".*$", "^.*$"}

SepClass == "[-_.:/\\s]*"

IsSep(c) == c \in {"-", "_", ".", ":", "/"} \/ IsSpace(c)

\* one step of the tokenizer; state [next, alts, cur]
rx_parse_step(b, st, i) ==
    IF i < st.next THEN st
    ELSE LET c == Ch(b, i)
             add(item, n) == [st EXCEPT !.next = n, !.cur = Append(st.cur, item)]
         IN IF c = "\\" THEN add([k |-> "lit", c |-> Ch(b, i + 1)], i + 2)
            ELSE IF StartsAt(b, i, SepClass) THEN add([k |-> "sep", c |-> ""], i + Len(SepClass))
            ELSE IF c = "|" THEN [next |-> i + 1, alts |-> Append(st.alts, st.cur), cur |-> <<>>]
            ELSE IF c = "^" THEN add([k |-> "bol", c |-> ""], i + 1)
            ELSE IF c = "$" THEN add([k |-> "eol", c |-> ""], i + 1)
            ELSE add([k |-> "lit", c |-> c], i + 1)

rx_compile(pattern) ==
    LET grouped == StartsAt(pattern, 1, "(?:") /\ Ch(pattern, Len(pattern)) = ")"
                   /\ Ch(pattern, Len(pattern) - 1) # "\\"
        b == IF grouped THEN Slice(pattern, 4, Len(pattern) - 1) ELSE pattern
        st == FoldRange(LAMBDA t, i : rx_parse_step(b, t, i), [next |-> 1, alts |-> <<>>, cur |-> <<>>], 1, Len(b))
    IN IF pattern \in DotStarForms
       THEN [kind |-> "dotstar", bol |-> Ch(pattern, 1) = "^", eol |-> Ch(pattern, Len(pattern)) = "$", alts |-> <<>>]
       ELSE IF pattern = FALLBACKS("email") THEN [kind |-> "email", bol |-> FALSE, eol |-> FALSE, alts |-> <<>>]
       ELSE IF pattern = FALLBACKS("date") THEN [kind |-> "date", bol |-> FALSE, eol |-> FALSE, alts |-> <<>>]
       ELSE [kind |-> "alts", bol |-> FALSE, eol |-> FALSE, alts |-> Append(st.alts, st.cur)]

\* ^ holds at position p
at_bol(s, p, flags) == p = 1 \/ ("m" \in flags /\ Ch(s, p - 1) = "\n")

\* $ holds at position p (p = Len + 1 is the end of the text)
at_eol(s, p, flags) ==
    \/ p = Len(s) + 1
    \/ (p = Len(s) /\ Ch(s, p) = "\n")
    \/ ("m" \in flags /\ Ch(s, p) = "\n")

\* one item of a token at position pos; 0 = no match
item_step(s, flags, item, pos) ==
    IF pos = 0 THEN 0
    ELSE CASE item.k = "lit" ->
                (IF pos <= Len(s) /\ (IF "i" \in flags THEN invoke("casefold", <<Ch(s, pos)>>) = invoke("casefold", <<item.c>>)
                                      ELSE Ch(s, pos) = item.c)
                 THEN pos + 1 ELSE 0)
           [] item.k = "sep" -> SkipWhile(IsSep, s, pos)
           [] item.k = "bol" -> (IF at_bol(s, pos, flags) THEN pos ELSE 0)
           [] OTHER -> (IF at_eol(s, pos, flags) THEN pos ELSE 0)

\* a token matched at position p: position after the match, 0 = no match
alt_end(s, flags, items, p) ==
    FoldRange(LAMBDA pos, i : item_step(s, flags, items[i], pos), p, 1, Len(items))

\* .* from position p: it runs to the end of the line, or of the text with re.S
dotstar_end(s, flags, p) ==
    IF "s" \in flags \/ IndexOf(s, "\n", p) = 0 THEN Len(s) + 1 ELSE IndexOf(s, "\n", p)

\* the pattern matched at position p: position after the match, 0 = no match
rx_match_at(rx, s, flags, p) ==
    IF rx.kind = "dotstar"
    THEN (IF (~rx.bol \/ at_bol(s, p, flags)) /\ (~rx.eol \/ at_eol(s, dotstar_end(s, flags, p), flags))
          THEN dotstar_end(s, flags, p) ELSE 0)
    ELSE IF rx.kind = "email" THEN invoke("email_end", <<s, p>>)
    ELSE IF rx.kind = "date" THEN invoke("date_fallback_end", <<s, p>>)
    ELSE LET hit == SelectSeq(rx.alts, LAMBDA items : invoke("alt_end", <<s, flags, items, p>>) > 0)
         IN IF hit = <<>> THEN 0 ELSE invoke("alt_end", <<s, flags, hit[1], p>>)

\* finditer: the scan resumes at the end of a match, one further after an
\* empty match; state [next, spans], a span being <<start, end>> (end excluded)
rx_span_step(rx, s, flags, st, p) ==
    IF p < st.next THEN st
    ELSE LET e == rx_match_at(rx, s, flags, p)
         IN IF e = 0 THEN [st EXCEPT !.next = p + 1]
            ELSE [next |-> IF e = p THEN p + 1 ELSE e, spans |-> Append(st.spans, <<p, e>>)]

rx_spans(rx, s, flags) ==
    FoldRange(LAMBDA t, p : rx_span_step(rx, s, flags, t, p), [next |-> 1, spans |-> <<>>], 1, Len(s) + 1).spans

\* len(rx.findall(s))
rx_count(rx, s, flags) == Len(invoke("rx_spans", <<rx, s, flags>>))

\* rx.sub(rep, s), rep holding no backslash
rx_sub(rx, rep, s, flags) ==
    LET sp == invoke("rx_spans", <<rx, s, flags>>)
        piece(i) == Slice(s, IF i = 1 THEN 1 ELSE sp[i - 1][2], sp[i][1] - 1) \o rep
    IN IF sp = <<>> THEN s
       ELSE join([i \in 1..Len(sp) |-> piece(i)], "") \o Slice(s, sp[Len(sp)][2], Len(s))

(***************************************************************************)
(* date_normalizer.py.  A date is [ok, y, m, d], ok = FALSE standing for   *)
(* None.  Texts are ASCII, so the Chinese alternative of DATE_TOKEN_RX and *)
(* the Chinese replacements of _parse_one never apply.                     *)
(***************************************************************************)
NoDate == [ok |-> FALSE, y |-> 0, m |-> 0, d |-> 0]

IsLeap(y) == (y % 4 = 0 /\ y % 100 # 0) \/ y % 400 = 0

DaysIn(y, m) ==
    IF m = 2 THEN (IF IsLeap(y) THEN 29 ELSE 28)
    ELSE IF m \in {4, 6, 9, 11} THEN 30 ELSE 31

\* datetime(y, m, d), a ValueError giving NoDate
MkDate(y, m, d) ==
    IF y >= 1 /\ y <= 9999 /\ m >= 1 /\ m <= 12 /\ d >= 1 /\ d <= DaysIn(y, m)
    THEN [ok |-> TRUE, y |-> y, m |-> m, d |-> d]
    ELSE NoDate

AllDigits(t) == t # "" /\ SkipDigits(t, 1) = Len(t) + 1

\* n written with at least w digits
Pad(n, w) ==
    LET t == NatToStr(n)
    IN IF Len(t) >= w THEN t ELSE SubSeq("0000", 1, w - Len(t)) \o t

\* str.replace(k, v)
str_replace(t, k, v) == re_sub(t, LAMBDA i : IF StartsAt(t, i, k) THEN i + Len(k) ELSE 0, LAMBDA i : v)

\* _to_strftime: the replacements in the order of the mapping
_to_strftime(fmt) ==
    str_replace(str_replace(str_replace(str_replace(str_replace(str_replace(str_replace(
        fmt, "YYYY", "%Y"), "YY", "%y"), "MM", "%m"), "DD", "%d"), "HH", "%H"), "mm", "%M"), "ss", "%S")

\* dt.strftime(fmt) for a date (time fields are zero).  %Y is the platform's:
\* four digits where the C library pads the year (lib.pad_year), the bare
\* number where it does not (glibc: datetime(24, 1, 2) gives "24")
strftime_code(dt, c, lib) ==
    CASE c = "Y" -> IF lib.pad_year THEN Pad(dt.y, 4) ELSE NatToStr(dt.y)
      [] c = "y" -> Pad(dt.y % 100, 2)
      [] c = "m" -> Pad(dt.m, 2)
      [] c = "d" -> Pad(dt.d, 2)
      [] c \in {"H", "M", "S"} -> "00"
      [] c = "%" -> "%"
      [] OTHER -> "%" \o c

strftime(dt, fmt, lib) ==
    re_sub(fmt, LAMBDA i : IF Ch(fmt, i) = "%" /\ i < Len(fmt) THEN i + 2 ELSE 0,
                LAMBDA i : strftime_code(dt, Ch(fmt, i + 1), lib))

\* _compact8_to_iso
_compact8_to_iso(t) ==
    IF Len(t) = 8 /\ AllDigits(t)
    THEN MkDate(DigitsToNat(Slice(t, 1, 4)), DigitsToNat(Slice(t, 5, 6)), DigitsToNat(Slice(t, 7, 8)))
    ELSE NoDate

\* (\b\d{1,2})(st|nd|rd|th)\b at position i: [ok, keep, next]
ordinal_at(t, i) ==
    LET n == IF IsDigit(Ch(t, i + 1)) THEN 2 ELSE 1
        suffix(k) == invoke("word_at", <<t, i + k, <<"st", "nd", "rd", "th">>, TRUE>>) # "" /\ ~IsWord(Ch(t, i + k + 2))
        k0 == IF suffix(n) THEN n ELSE IF suffix(1) THEN 1 ELSE 0
    IN IF IsDigit(Ch(t, i)) /\ ~IsWord(Ch(t, i - 1)) /\ k0 > 0
       THEN [ok |-> TRUE, keep |-> Slice(t, i, i + k0 - 1), next |-> i + k0 + 2]
       ELSE [ok |-> FALSE, keep |-> "", next |-> 0]

strip_ordinals(t) == re_sub(t, LAMBDA i : invoke("ordinal_at", <<t, i>>).next, LAMBDA i : invoke("ordinal_at", <<t, i>>).keep)

\* the three numeric fields of a token a<sep>b<sep>c with one separator
\* character of seps at both places: [ok, a, b, c, s1, s2] (texts)
three_fields(t, seps) ==
    LET e1 == SkipDigits(t, 1)
        e2 == SkipDigits(t, e1 + 1)
        e3 == SkipDigits(t, e2 + 1)
    IN IF /\ e1 > 1 /\ Ch(t, e1) \in seps /\ e2 > e1 + 1 /\ Ch(t, e2) \in seps
          /\ e3 > e2 + 1 /\ e3 = Len(t) + 1
       THEN [ok |-> TRUE, a |-> Slice(t, 1, e1 - 1), b |-> Slice(t, e1 + 1, e2 - 1),
             c |-> Slice(t, e2 + 1, Len(t)), s1 |-> Ch(t, e1), s2 |-> Ch(t, e2)]
       ELSE [ok |-> FALSE, a |-> "", b |-> "", c |-> "", s1 |-> "", s2 |-> ""]

\* the directive regexes of strptime: %Y is four digits, %y two, %m and %d
\* one or two digits in range
fits(code, f) ==
    CASE code = "Y" -> Len(f) = 4
      [] code = "y" -> Len(f) = 2
      [] code = "m" -> Len(f) <= 2 /\ DigitsToNat(f) >= 1 /\ DigitsToNat(f) <= 12
      [] OTHER -> Len(f) <= 2 /\ DigitsToNat(f) >= 1 /\ DigitsToNat(f) <= 31

\* %y: 69-99 are 19xx, 00-68 are 20xx
year_of(code, f) ==
    IF code = "Y" THEN DigitsToNat(f)
    ELSE IF DigitsToNat(f) >= 69 THEN 1900 + DigitsToNat(f) ELSE 2000 + DigitsToNat(f)

\* datetime.strptime(token, fmt) for a numeric format written as
\* <<code, code, code, separator>>
strptime(token, fmt) ==
    LET f == invoke("three_fields", <<token, {fmt[4]}>>)
        val(code) == IF fmt[1] = code THEN f.a ELSE IF fmt[2] = code THEN f.b ELSE f.c
        yc == IF "Y" \in {fmt[1], fmt[2], fmt[3]} THEN "Y" ELSE "y"
    IN IF f.ok /\ fits(fmt[1], f.a) /\ fits(fmt[2], f.b) /\ fits(fmt[3], f.c)
       THEN MkDate(year_of(yc, val(yc)), DigitsToNat(val("m")), DigitsToNat(val("d")))
       ELSE NoDate

\* the numeric formats of the final fallback, in order; the formats with a
\* month name (%b, %B) need letters, which no text of this model's cells
\* combines with a day and a year
FallbackFormats ==
    << <<"Y", "m", "d", "-">>, <<"Y", "m", "d", "/">>, <<"Y", "m", "d", ".">>,
       <<"d", "m", "Y", "/">>, <<"m", "d", "Y", "/">>,
       <<"d", "m", "y", "/">>, <<"m", "d", "y", "/">>,
       <<"d", "m", "Y", "-">>, <<"m", "d", "Y", "-">> >>

strptime_fallback(token) ==
    LET hit == SelectSeq(FallbackFormats, LAMBDA fmt : invoke("strptime", <<token, fmt>>).ok)
    IN IF hit = <<>> THEN NoDate ELSE invoke("strptime", <<token, hit[1]>>)

\* the clock of the run: dateutil takes from it the fields a token does not
\* give and the century of a two-digit year
Today == [y |-> 2026, m |-> 11, d |-> 6]

\* parserinfo.convertyear: a two-digit year is put within 50 years of today
convertyear(y, century_specified) ==
    LET c == y + (Today.y \div 100) * 100
    IN IF y >= 100 \/ century_specified THEN y
       ELSE IF c >= Today.y + 50 THEN c - 100
       ELSE IF c < Today.y - 50 THEN c + 100
       ELSE c

\* _ymd.resolve_ymd for three numbers none of which is a month name: a is
\* the year when it is above 31 or was written with more than two digits
\* (year_first), and then dayfirst swaps the other two when the last can be
\* a month; otherwise the year is last and the day comes first when a is
\* above 12 or dayfirst holds and b can be a month.  <<year, month, day>>
resolve_ymd(a, b, c, year_first, dayfirst) ==
    IF a > 31 \/ year_first
    THEN (IF dayfirst /\ c <= 12 THEN <<a, c, b>> ELSE <<a, b, c>>)
    ELSE IF a > 12 \/ (dayfirst /\ b <= 12) THEN <<c, b, a>>
    ELSE <<c, a, b>>

\* du_parser.parse(token, dayfirst=..., yearfirst=False, fuzzy=True) for a
\* token of three numeric fields (at most one of them, the first or the
\* last, written with more than two digits) and for a bare number of one to
\* four digits; any other text of this model holds no date and the parser
\* raises, as it does when the fields are no date of the calendar
library_parse(token, dayfirst) ==
    LET f == invoke("three_fields", <<token, {"-", "/", "."}>>)
        long == {i \in 1..3 : Len(<<f.a, f.b, f.c>>[i]) > 2}
        r == resolve_ymd(DigitsToNat(f.a), DigitsToNat(f.b), DigitsToNat(f.c), 1 \in long, dayfirst)
        n == DigitsToNat(token)
    IN IF f.ok
       THEN (IF Len(f.a) > 4 \/ Len(f.c) > 4 \/ 2 \in long \/ long = {1, 3} THEN NoDate
             ELSE MkDate(convertyear(r[1], long # {}), r[2], r[3]))
       ELSE IF AllDigits(token) /\ Len(token) <= 4
       THEN (IF Len(token) > 2 THEN MkDate(n, Today.m, Today.d)
             ELSE IF n > 31 THEN MkDate(convertyear(n, FALSE), Today.m, Today.d)
             ELSE MkDate(Today.y, Today.m, n))
       ELSE NoDate

\* the builds: whether dateutil is installed (dateparser is not), and whether
\* the platform's strftime pads %Y
DateLibs == [parser : {"dateutil", "none"}, pad_year : BOOLEAN]

\* _parse_one; lib is the build
_parse_one(token0, dayfirst, lib) ==
    LET token == strip_ordinals(token0)
    IN IF _compact8_to_iso(token).ok THEN _compact8_to_iso(token)
       ELSE IF lib.parser = "dateutil" /\ invoke("library_parse", <<token, dayfirst>>).ok THEN invoke("library_parse", <<token, dayfirst>>)
       ELSE invoke("strptime_fallback", <<token>>)

\* digits{lo1,hi1} sep digits{1,2} sep digits{lo3,hi3} \b from position i,
\* the quantifiers greedy: <<e1, e2, e3>>, the positions after the three
\* fields, or <<>> if there is no match
date_shape_at(t, i, seps, lo1, hi1, lo3, hi3) ==
    LET third(e2) == SelectSeq(digit_runs(t, e2 + 1, lo3, hi3), LAMBDA e : ~IsWord(Ch(t, e)))
        second(e1) == SelectSeq(digit_runs(t, e1 + 1, 1, 2), LAMBDA e : Ch(t, e) \in seps /\ third(e) # <<>>)
        first == SelectSeq(digit_runs(t, i, lo1, hi1), LAMBDA e : Ch(t, e) \in seps /\ second(e) # <<>>)
    IN IF ~IsDigit(Ch(t, i)) \/ first = <<>> THEN <<>>
       ELSE <<first[1], second(first[1])[1], third(second(first[1])[1])[1]>>

date_shape_end(t, i, seps, lo1, hi1, lo3, hi3) ==
    LET m == invoke("date_shape_at", <<t, i, seps, lo1, hi1, lo3, hi3>>)
    IN IF m = <<>> THEN 0 ELSE m[3]

\* DATE_TOKEN_RX at position i: position after the match, 0 if none
date_token_end(t, i) ==
    LET a == date_shape_end(t, i, {"-", "/", "."}, 4, 4, 1, 2)
        b == date_shape_end(t, i, {"-", "/"}, 1, 2, 2, 4)
        c == IF SkipDigits(t, i) = i + 8 /\ ~IsWord(Ch(t, i + 8)) THEN i + 8 ELSE 0
    IN IF ~IsDigit(Ch(t, i)) \/ IsWord(Ch(t, i - 1)) THEN 0
       ELSE IF a > 0 THEN a ELSE IF b > 0 THEN b ELSE c

\* the matches of DATE_TOKEN_RX.sub with what _repl returns for each:
\* [ok, next, dt]
date_token_at(t, i, dayfirst, lib) ==
    [ok |-> invoke("date_token_end", <<t, i>>) > 0, next |-> invoke("date_token_end", <<t, i>>),
     dt |-> invoke("_parse_one", <<Slice(t, i, invoke("date_token_end", <<t, i>>) - 1), dayfirst, lib>>)]

\* normalize_date_text: [text, count]
normalize_date_text(text, out_fmt, dayfirst, lib) ==
    LET fmt == _to_strftime(out_fmt)
        ms == re_findall(text, LAMBDA i : date_token_at(text, i, dayfirst, lib))
        new_text == re_sub(text, LAMBDA i : invoke("date_token_end", <<text, i>>),
                           LAMBDA i : IF date_token_at(text, i, dayfirst, lib).dt.ok
                                      THEN invoke("strftime", <<date_token_at(text, i, dayfirst, lib).dt, fmt, lib>>)
                                      ELSE Slice(text, i, invoke("date_token_end", <<text, i>>) - 1))
    IN IF text = "" THEN [text |-> text, count |-> 0]
       ELSE [text |-> new_text, count |-> Len(SelectSeq(ms, LAMBDA m : m.dt.ok))]

\* the Excel serial branch of normalize_cell_as_whole, taken for an int or
\* float n with 10000 <= n <= 80000: base + timedelta(days=n) names
\* timedelta, which the module never imports; the NameError is swallowed by
\* the except clause of the branch, which so returns nothing: [ok, text]
excel_serial(n, fmt, lib) == [ok |-> FALSE, text |-> ""]

\* normalize_cell_as_whole for a number, for a text, and for pd.NA (the
\* missing value of a string-dtype column), whose str() is "<NA>"
normalize_cell_as_whole(value, out_fmt, dayfirst, lib) ==
    LET fmt == _to_strftime(out_fmt)
        serial == IF value.k = "num" /\ value.n >= 10000 /\ value.n <= 80000
                  THEN excel_serial(value.n, fmt, lib)
                  ELSE [ok |-> FALSE, text |-> ""]
        t == IF value.k = "null" THEN "<NA>" ELSE IF value.k = "num" THEN IntToStr(value.n) ELSE value.s
        dt == invoke("_parse_one", <<t, dayfirst, lib>>)
    IN IF serial.ok THEN [text |-> serial.text, count |-> 1]
       ELSE IF dt.ok THEN [text |-> invoke("strftime", <<dt, fmt, lib>>), count |-> 1]
       ELSE [text |-> t, count |-> 0]

\* \b(\d{1,2})[/-](\d{1,2})[/-](\d{2,4})\b searched in a sample: the first
\* two fields of the first match, <<>> if none
dayfirst_fields(t) ==
    LET at(i) == [ok |-> ~IsWord(Ch(t, i - 1)) /\ invoke("date_shape_at", <<t, i, {"/", "-"}, 1, 2, 2, 4>>) # <<>>,
                  i |-> i, next |-> Len(t) + 1]
        ms == re_findall(t, at)
        m == invoke("date_shape_at", <<t, ms[1].i, {"/", "-"}, 1, 2, 2, 4>>)
    IN IF ms = <<>> THEN <<>>
       ELSE <<DigitsToNat(Slice(t, ms[1].i, m[1] - 1)), DigitsToNat(Slice(t, m[1] + 1, m[2] - 1))>>

\* \b(13|14|15|1[6-9]|2[0-9]|3[01])\b found in a sample
has_day_hint(t) ==
    \E i \in 1..Len(t) :
        /\ ~IsWord(Ch(t, i - 1)) /\ IsDigit(Ch(t, i)) /\ IsDigit(Ch(t, i + 1)) /\ ~IsWord(Ch(t, i + 2))
        /\ DigitsToNat(Slice(t, i, i + 1)) >= 13 /\ DigitsToNat(Slice(t, i, i + 1)) <= 31

\* guess_dayfirst: "true" or "none" (it never answers False)
\* the samples guess_dayfirst looks at: samples[:200]
SampleCap == 200

guess_dayfirst(samples) ==
    LET examined == SubSeq(samples, 1, IF Len(samples) < SampleCap THEN Len(samples) ELSE SampleCap)
        amb == SelectSeq(examined, LAMBDA t : invoke("dayfirst_fields", <<t>>) # <<>> /\ invoke("dayfirst_fields", <<t>>)[1] <= 12
                                             /\ invoke("dayfirst_fields", <<t>>)[2] <= 12)
        votes == Len(SelectSeq(amb, has_day_hint))
        need == IF Len(amb) \div 3 > 1 THEN Len(amb) \div 3 ELSE 1
    IN IF amb = <<>> THEN "none" ELSE IF votes >= need THEN "true" ELSE "none"

(***************************************************************************)
(* execute_plan.  Text arguments use "" for None as well (the code tests   *)
(* them with "not x" / "x or ..."); columns is [some, v].  Row indices in  *)
(* the payload are row positions (label + 1), in ascending order.  A frame *)
(* carries the identity of the object that holds it in the field id.       *)
(***************************************************************************)
NoColumns == [some |-> FALSE, v |-> <<>>]

SomeColumns(v) == [some |-> TRUE, v |-> v]

\* the caller's own object, handed on without a copy
df_alias(df) == df

\* df.copy(): the same cells in a new object
df_copy(df) == [df EXCEPT !.id = "copy"]

\* out[c] = ser for a string-dtype series ser (a function of the rows)
set_column(df, c, ser) ==
    [df EXCEPT !.numcols = df.numcols \ {c},
               !.rows = [r \in RowSet(df) |-> [df.rows[r] EXCEPT ![ColPos(df, c)] = ser[r]]]]

\* the first n elements of a sequence ([:n])
Take(seq, n) == SubSeq(seq, 1, IF Len(seq) < n THEN Len(seq) ELSE n)

\* sorted(rows) for a set of row positions
sorted(rows) == SelectSeq([r \in 1..(IF rows = {} THEN 0 ELSE CHOOSE m \in rows : \A x \in rows : x <= m) |-> r],
                          LAMBDA r : r \in rows)

FilterOnlyText == "Result rows = rows where row_filter is true."

FilterAndPatternText ==
    "Result rows = rows where row_filter is true AND at least one of the selected columns matches the pattern."

\* html.escape
html_escape(t) ==
    re_sub(t, LAMBDA i : IF Ch(t, i) \in {"&", "<", ">", "\"", "'"} THEN i + 1 ELSE 0,
              LAMBDA i : CASE Ch(t, i) = "&" -> "&amp;"
                           [] Ch(t, i) = "<" -> "&lt;"
                           [] Ch(t, i) = ">" -> "&gt;"
                           [] Ch(t, i) = "\"" -> "&quot;"
                           [] OTHER -> "&#x27;")

\* _highlight_html on a cell already turned into text by str(): [html, count]
_highlight_html(cell, rx, flags) ==
    LET t == cell.s
        sp == invoke("rx_spans", <<rx, t, flags>>)
        piece(i) == html_escape(Slice(t, IF i = 1 THEN 1 ELSE sp[i - 1][2], sp[i][1] - 1))
                    \o "<mark>" \o html_escape(Slice(t, sp[i][1], sp[i][2] - 1)) \o "</mark>"
    IN IF cell.k = "null" THEN [html |-> "", count |-> 0]
       ELSE IF sp = <<>> THEN [html |-> html_escape(t), count |-> 0]
       ELSE [html |-> join([i \in 1..Len(sp) |-> piece(i)], "") \o html_escape(Slice(t, sp[Len(sp)][2], Len(t))),
             count |-> Len(sp)]

\* ser.str.count(rx).fillna(0) on the masked rows of column c (0 elsewhere)
count_column(df, mask, c, rx, flags) ==
    LET s == invoke("_to_string", <<df, c>>)
    IN [r \in RowSet(df) |-> IF mask[r] /\ s[r].k # "null" THEN invoke("rx_count", <<rx, s[r].s, flags>>) ELSE 0]

RECURSIVE SumSeq(_)
SumSeq(ns) == IF ns = <<>> THEN 0 ELSE ns[Len(ns)] + SumSeq(SubSeq(ns, 1, Len(ns) - 1))

SumRows(f) == SumSeq([r \in 1..Len(f) |-> f[r]])

ColsOf(cols) == {cols[i] : i \in 1..Len(cols)}

\* a pattern that is empty or the match-all form gives way to the regex
\* derived from the row filter in every mode
adopts_in_any_mode(find, pattern, disp_rx) ==
    (pattern = "" \/ invoke("_MATCH_ALL_RE", <<pattern>>)) /\ disp_rx # ""

\* lines 572-579: in FIND, a pattern that is empty or the match-all form gives
\* way to the regex derived from the row filter
adopts_row_filter(find, pattern, disp_rx) ==
    find /\ (pattern = "" \/ invoke("_MATCH_ALL_RE", <<pattern>>)) /\ disp_rx # ""

\* the lines 552-636 shared by the three modes
plan_prologue(df, intent, pattern0, flags, columns, replacement, row_filter) ==
    LET find == invoke("casefold", <<intent>>) = "find"
        replace == invoke("casefold", <<intent>>) = "replace"
        pattern == IF pattern0 = "" /\ find THEN "^.*$" ELSE pattern0
        em == invoke("_ensure_mask_from_query", <<df, row_filter>>)
        cols0 == invoke("_auto_columns", <<df, intent, pattern, columns>>)
        nrm == invoke("_normalize_row_filter", <<row_filter, df.columns>>)
        norm == IF row_filter # "" THEN nrm.q ELSE ""
        disp == invoke("_display_regex_and_columns_from_row_filter", <<norm>>)
        known(cs) == SelectSeq(cs, LAMBDA c : c \in ColSet(df))
        adopt == adopts_row_filter(find, pattern, disp.rx)
        is_date_normalize == StartsAt(replacement, 1, "__DATE_NORMALIZE__(") /\ Ch(replacement, Len(replacement)) = ")"
        derive == replace /\ ~is_date_normalize /\ norm # ""
                  /\ (pattern0 = "" \/ invoke("_MATCH_ALL_RE", <<pattern0>>)) /\ disp.rx # ""
        use0 == IF adopt THEN disp.rx ELSE pattern
    IN [raised |-> em.raised \/ nrm.raised,
        pattern |-> pattern,
        mask |-> em.mask,
        norm_row_filter |-> norm,
        row_filter_only_hits |-> adopt,
        use_pattern |-> IF use0 = "" THEN "^.*$" ELSE use0,
        regex_source |-> IF adopt THEN "row_filter-derived" ELSE "regex",
        cols |-> IF adopt /\ ~columns.some /\ disp.cols # <<>> THEN known(disp.cols) ELSE cols0,
        display_regex |-> IF find THEN (IF disp.rx # "" THEN disp.rx ELSE use0)
                          ELSE IF derive THEN disp.rx
                          ELSE IF replace THEN pattern ELSE "",
        display_regex_source |-> IF find THEN (IF disp.rx # "" THEN "row_filter-derived"
                                               ELSE IF adopt THEN "row_filter-derived" ELSE "regex")
                                 ELSE IF derive THEN "row_filter-derived"
                                 ELSE IF replace /\ pattern # "" THEN "regex" ELSE "",
        display_columns |-> IF derive /\ ~columns.some /\ disp.cols # <<>> THEN known(disp.cols) ELSE cols0,
        is_date_normalize |-> replace /\ is_date_normalize]

ExampleCap == 50

IndexCap == 2000

\* the result rows are the rows with a hit, whatever the mode
result_rows_with_hits(row_filter_only_hits, mask_rows, hit_rows) == hit_rows

\* lines 676-687: in pure filter mode the result rows are the rows of the mask
result_rows(row_filter_only_hits, mask_rows, hit_rows) ==
    IF row_filter_only_hits THEN mask_rows ELSE hit_rows

\* the FIND branch (lines 639-736)
find_branch(df, pr, flags, row_filter) ==
    LET rx == invoke("rx_compile", <<pr.use_pattern>>)
        fl == invoke("_compile_flags", <<flags>>)
        cols == pr.cols
        counts == [i \in 1..Len(cols) |-> invoke("count_column", <<df, pr.mask, cols[i], rx, fl>>)]
        per_col == [c \in ColsOf(cols) |-> SumRows(counts[CHOOSE i \in 1..Len(cols) : cols[i] = c])]
        total == SumSeq([i \in 1..Len(cols) |-> SumRows(counts[i])])
        hit_rows == {r \in RowSet(df) : \E i \in 1..Len(cols) : counts[i][r] > 0}
        cell_hl(r, c) == invoke("_highlight_html", <<to_string_cell(df, c, Cell(df, r, c)), rx, fl>>)
        example(r) == [_index |-> r,
                       cells |-> [c \in {x \in ColsOf(cols) : cell_hl(r, x).count > 0} |-> cell_hl(r, c)]]
        examples == SelectSeq([i \in 1..Len(Take(sorted(hit_rows), ExampleCap)) |-> example(sorted(hit_rows)[i])],
                              LAMBDA ex : DOMAIN ex.cells # {})
        changed_rows == result_rows(pr.row_filter_only_hits, MaskRows(pr.mask), hit_rows)
    IN [raised |-> FALSE,
        out |-> df,
        payload |->
          [mode |-> "find",
           regex |-> pr.use_pattern,
           regex_source |-> pr.regex_source,
           display_regex |-> pr.display_regex,
           display_regex_source |-> pr.display_regex_source,
           display_columns |-> <<>>,
           flags |-> flags,
           columns_applied |-> cols,
           row_filter |-> row_filter,
           row_filter_normalized |-> pr.norm_row_filter,
           mask_row_indices |-> Take(sorted(MaskRows(pr.mask)), IndexCap),
           total |-> total,
           per_column |-> per_col,
           rows_with_hits |-> Cardinality(changed_rows),
           changed_row_indices |-> Take(sorted(changed_rows), IndexCap),
           examples |-> examples,
           result_rows_description |-> IF pr.row_filter_only_hits THEN FilterOnlyText ELSE FilterAndPatternText,
           result_rows_count |-> Cardinality(changed_rows),
           result_rows_indices |-> Take(sorted(changed_rows), IndexCap)]]

\* one turn of the loop "for c in cols" of PLAIN REPLACE; the state is
\* [out, per_col, total, changed]
\* the column rewritten in every row, whatever the mask
replace_column_unmasked(mask, rx, fl, rep, st, c) ==
    LET col_all == invoke("_to_string", <<st.out, c>>)
        before == [r \in RowSet(st.out) |->
                      IF mask[r] /\ col_all[r].k # "null" THEN invoke("rx_count", <<rx, col_all[r].s, fl>>) ELSE 0]
        n == SumRows(before)
        written == [r \in RowSet(st.out) |->
                      IF col_all[r].k # "null" THEN Str(invoke("rx_sub", <<rx, rep, col_all[r].s, fl>>)) ELSE col_all[r]]
    IN [out |-> IF n > 0 THEN set_column(st.out, c, written) ELSE st.out,
        per_col |-> Append(st.per_col, n),
        total |-> st.total + n,
        changed |-> st.changed \cup {r \in RowSet(st.out) : before[r] > 0}]

replace_column(mask, rx, fl, rep, st, c) ==
    LET col_all == invoke("_to_string", <<st.out, c>>)
        before == [r \in RowSet(st.out) |->
                      IF mask[r] /\ col_all[r].k # "null" THEN invoke("rx_count", <<rx, col_all[r].s, fl>>) ELSE 0]
        n == SumRows(before)
        \* Series.str.replace leaves a missing value missing
        written == [r \in RowSet(st.out) |->
                      IF mask[r] /\ col_all[r].k # "null" THEN Str(invoke("rx_sub", <<rx, rep, col_all[r].s, fl>>)) ELSE col_all[r]]
    IN [out |-> IF n > 0 THEN set_column(st.out, c, written) ELSE st.out,
        per_col |-> Append(st.per_col, n),
        total |-> st.total + n,
        changed |-> st.changed \cup {r \in RowSet(st.out) : before[r] > 0}]

\* the PLAIN REPLACE branch (lines 865-925)
plain_replace_branch(df, pr, flags, replacement, row_filter) ==
    LET rx_replace == invoke("rx_compile", <<pr.use_pattern>>)
        fl == invoke("_compile_flags", <<flags>>)
        cols == pr.cols
        st == FoldRange(LAMBDA t, i : invoke("replace_column", <<pr.mask, rx_replace, fl, replacement, t, cols[i]>>),
                        [out |-> df_copy(df), per_col |-> <<>>, total |-> 0, changed |-> {}], 1, Len(cols))
    IN [raised |-> FALSE,
        out |-> st.out,
        payload |->
          [mode |-> "replace",
           regex |-> pr.use_pattern,
           regex_source |-> pr.regex_source,
           display_regex |-> pr.display_regex,
           display_regex_source |-> pr.display_regex_source,
           display_columns |-> pr.display_columns,
           flags |-> flags,
           columns_applied |-> cols,
           row_filter |-> row_filter,
           row_filter_normalized |-> pr.norm_row_filter,
           mask_row_indices |-> Take(sorted(MaskRows(pr.mask)), IndexCap),
           total |-> st.total,
           per_column |-> [c \in ColsOf(cols) |-> st.per_col[CHOOSE i \in 1..Len(cols) : cols[i] = c]],
           rows_with_hits |-> Cardinality(st.changed),
           changed_row_indices |-> Take(sorted(st.changed), IndexCap),
           examples |-> <<>>,
           result_rows_description |-> FilterAndPatternText,
           result_rows_count |-> Cardinality(st.changed),
           result_rows_indices |-> Take(sorted(st.changed), IndexCap)]]

\* re.split(r"[;,]", inside), each part stripped, the blank ones dropped
split_options(inside) ==
    LET cuts == SelectSeq([i \in 1..Len(inside) |-> i], LAMBDA i : Ch(inside, i) \in {";", ","})
        from(k) == IF k = 1 THEN 1 ELSE cuts[k - 1] + 1
        to(k) == IF k = Len(cuts) + 1 THEN Len(inside) ELSE cuts[k] - 1
    IN SelectNonEmpty([k \in 1..(Len(cuts) + 1) |-> strip(Slice(inside, from(k), to(k)))])

\* re.fullmatch(r"[YMDHms:/._\- ]+", p)
is_format(p) ==
    p # "" /\ \A i \in 1..Len(p) : Ch(p, i) \in {"Y", "M", "D", "H", "m", "s", ":", "/", ".", "_", "-", " "}

\* re.search(r"dayfirst\s*=\s*(auto|true|false)", p, re.I): the word, "" if none
dayfirst_word(p) ==
    LET val(i) == invoke("word_at", <<p, SkipSpace(p, SkipSpace(p, i + 8) + 1), <<"auto", "true", "false">>, TRUE>>)
        ok(i) == StartsAtCI(p, i, "dayfirst") /\ Ch(p, SkipSpace(p, i + 8)) = "=" /\ val(i) # ""
        hits == SelectSeq([i \in 1..Len(p) |-> i], ok)
    IN IF hits = <<>> THEN "" ELSE val(hits[1])

\* one option of the sentinel; the state is [out_fmt, dayfirst], dayfirst
\* being "auto" (None), "true" or "false"
option_step(st, p) ==
    IF is_format(p) THEN [st EXCEPT !.out_fmt = p]
    ELSE IF StartsAtCI(p, 1, "dayfirst") /\ dayfirst_word(p) # "" THEN [st EXCEPT !.dayfirst = dayfirst_word(p)]
    ELSE st

\* the options of __DATE_NORMALIZE__(...)
sentinel_options(sentinel) ==
    LET inside == strip(Slice(sentinel, Len("__DATE_NORMALIZE__(") + 1, Len(sentinel) - 1))
        parts == split_options(inside)
    IN FoldRange(LAMBDA st, i : option_step(st, parts[i]),
                 [out_fmt |-> "YYYY-MM-DD", dayfirst |-> "auto"], 1, Len(parts))

\* the samples handed to guess_dayfirst: the non-missing masked cells of
\* the columns, as text
dayfirst_samples(df, mask, cols) ==
    LET per(c) == LET s == invoke("_to_string", <<df, c>>)
                      rows == SelectSeq([r \in RowSet(df) |-> r], LAMBDA r : mask[r] /\ s[r].k # "null")
                  IN Take([i \in 1..Len(rows) |-> s[rows[i]].s], 200)
    IN FoldRange(LAMBDA acc, i : acc \o per(cols[i]), <<>>, 1, Len(cols))

\* one turn of the loop "for c in cols" of DATE NORMALIZE
date_column(mask, whole_cell, rx, fl, out_fmt, dayfirst, lib, st, c) ==
    LET ser_all == invoke("_to_string", <<st.out, c>>)
        hit(r) == mask[r] /\ (whole_cell \/ (ser_all[r].k # "null" /\ invoke("rx_count", <<rx, ser_all[r].s, fl>>) > 0))
        res(r) == IF whole_cell THEN invoke("normalize_cell_as_whole", <<ser_all[r], out_fmt, dayfirst, lib>>)
                  ELSE invoke("normalize_date_text", <<ser_all[r].s, out_fmt, dayfirst, lib>>)
        new_col == [r \in RowSet(st.out) |-> IF hit(r) THEN Str(res(r).text) ELSE ser_all[r]]
        changed == SumRows([r \in RowSet(st.out) |-> IF hit(r) THEN res(r).count ELSE 0])
    IN [out |-> set_column(st.out, c, new_col),
        per_col |-> Append(st.per_col, changed),
        total |-> st.total + changed,
        changed |-> IF changed > 0 THEN st.changed \cup {r \in RowSet(st.out) : hit(r)} ELSE st.changed]

\* the DATE NORMALIZE branch (lines 740-863)
date_normalize_branch(df, pr, pattern, flags, replacement, row_filter, lib) ==
    LET opt == invoke("sentinel_options", <<replacement>>)
        cols == pr.cols
        dayfirst_use == IF opt.dayfirst = "auto"
                        THEN invoke("guess_dayfirst", <<invoke("dayfirst_samples", <<df, pr.mask, cols>>)>>) = "true"
                        ELSE opt.dayfirst = "true"
        whole_cell == pattern \in DotStarForms
        rx_sub_pat == invoke("rx_compile", <<IF pattern = "" THEN "^.*$" ELSE pattern>>)
        st == FoldRange(LAMBDA t, i : invoke("date_column", <<pr.mask, whole_cell, rx_sub_pat, invoke("_compile_flags", <<flags>>),
                                                  opt.out_fmt, dayfirst_use, lib, t, cols[i]>>),
                        [out |-> df_copy(df), per_col |-> <<>>, total |-> 0, changed |-> {}], 1, Len(cols))
    IN [raised |-> FALSE,
        out |-> st.out,
        payload |->
          [mode |-> "replace",
           regex |-> pattern,
           regex_source |-> "regex",
           display_regex |-> "",
           display_regex_source |-> "",
           display_columns |-> <<>>,
           flags |-> flags,
           columns_applied |-> cols,
           row_filter |-> row_filter,
           row_filter_normalized |-> pr.norm_row_filter,
           mask_row_indices |-> Take(sorted(MaskRows(pr.mask)), IndexCap),
           total |-> st.total,
           per_column |-> [c \in ColsOf(cols) |-> st.per_col[CHOOSE i \in 1..Len(cols) : cols[i] = c]],
           rows_with_hits |-> Cardinality(st.changed),
           changed_row_indices |-> Take(sorted(st.changed), IndexCap),
           examples |-> <<>>,
           result_rows_description |-> FilterAndPatternText,
           result_rows_count |-> Cardinality(st.changed),
           result_rows_indices |-> Take(sorted(st.changed), IndexCap)]]

\* what execute_plan gives when an exception leaves it
PlanRaised == [raised |-> TRUE, out |-> [id |-> "none"], payload |-> [mode |-> "raised"]]

\* execute_plan: [raised, out, payload]; a column of the plan that the
\* dataset does not have raises KeyError in every mode
execute_plan(df, intent, pattern, flags, columns, replacement, row_filter, lib) ==
    LET pr == invoke("plan_prologue", <<df, intent, pattern, flags, columns, replacement, row_filter>>)
    IN IF pr.raised THEN PlanRaised
       ELSE IF \E i \in 1..Len(pr.cols) : pr.cols[i] \notin ColSet(df) THEN PlanRaised
       ELSE IF invoke("casefold", <<intent>>) = "find" THEN invoke("find_branch", <<df, pr, flags, row_filter>>)
       ELSE IF pr.is_date_normalize
       THEN invoke("date_normalize_branch", <<df, pr, pattern, flags, replacement, row_filter, lib>>)
       ELSE invoke("plain_replace_branch", <<df, pr, flags, replacement, row_filter>>)

(***************************************************************************)
(* re.compile: the syntax check of the pattern parser (plan_v2.py)         *)
(*                                                                         *)
(* The parser of the re module is followed for literals, escapes of one    *)
(* character, character classes, groups written ( (?: (?= (?!, the         *)
(* anchors, alternation and the quantifiers * + ? {m,n} with their lazy    *)
(* and possessive marks.  Numeric, \x, \u and \N escapes, inline flags,    *)
(* named groups, look-behind and conditional groups are not followed: a    *)
(* pattern holding one is reported as not compilable.                      *)
(***************************************************************************)
\* the printable characters in code order, from code 32
AsciiChars == " !\"#$%&'()*+,-./" \o DigitChars \o ":;<=>?@" \o UpperChars \o "[\\]^_" \o BT \o LowerChars \o "{|}~"

\* \a \b \t \n \v \f \r stand for the codes 7..13
ControlEscapes == "abtnvfr"

CategoryEscapes == "dDsSwW"

AnchorEscapes == "AbBZ"

\* one item of the pattern at position i, a character or a backslash pair:
\* [len, kind, code], kind in "lit", "category", "at", "bad", "end"
rx_item(p, i, in_class) ==
    LET c == Ch(p, i)
        e == Ch(p, i + 1)
    IN IF c = "" THEN [len |-> 0, kind |-> "end", code |-> 0]
       ELSE IF c # "\\" THEN [len |-> 1, kind |-> "lit", code |-> 31 + PosIn(AsciiChars, c)]
       ELSE IF e = "" THEN [len |-> 1, kind |-> "bad", code |-> 0]
       ELSE IF PosIn(CategoryEscapes, e) > 0 THEN [len |-> 2, kind |-> "category", code |-> 0]
       ELSE IF ~in_class /\ PosIn(AnchorEscapes, e) > 0 THEN [len |-> 2, kind |-> "at", code |-> 0]
       ELSE IF PosIn(ControlEscapes, e) > 0 /\ (in_class \/ e # "b")
       THEN [len |-> 2, kind |-> "lit", code |-> 6 + PosIn(ControlEscapes, e)]
       ELSE IF IsAlpha(e) \/ IsDigit(e) THEN [len |-> 2, kind |-> "bad", code |-> 0]
       ELSE [len |-> 2, kind |-> "lit", code |-> 31 + PosIn(AsciiChars, e)]

\* {m}, {m,}, {,n}, {m,n} at position i: [len, ok]; len = 0 when the brace
\* is an ordinary character
rx_brace(p, i) ==
    LET a == SkipDigits(p, i + 1)
        comma == Ch(p, a) = ","
        b == IF comma THEN SkipDigits(p, a + 1) ELSE a
        lo == Slice(p, i + 1, a - 1)
        hi == IF comma THEN Slice(p, a + 1, b - 1) ELSE lo
    IN IF Ch(p, i + 1) = "}" \/ Ch(p, b) # "}" THEN [len |-> 0, ok |-> TRUE]
       ELSE [len |-> b + 1 - i, ok |-> lo = "" \/ hi = "" \/ DigitsToNat(lo) <= DigitsToNat(hi)]

\* one step of the parser; state [next, ok, depth, prev, in_class, first]:
\* prev is what a quantifier would repeat ("none", "at", "atom", "rep")
rx_syntax_step(p, st, i) ==
    IF i < st.next \/ ~st.ok THEN st
    ELSE LET c == Ch(p, i)
             bad == [st EXCEPT !.ok = FALSE]
             it == invoke("rx_item", <<p, i, st.in_class>>)
             that == invoke("rx_item", <<p, i + it.len + 1, TRUE>>)
             br == invoke("rx_brace", <<p, i>>)
             quant == IF c \in {"*", "+", "?"} THEN 1 ELSE IF c = "{" THEN br.len ELSE 0
             mark == IF Ch(p, i + quant) \in {"?", "+"} THEN 1 ELSE 0
         IN IF st.in_class
            THEN (IF c = "]" /\ ~st.first THEN [st EXCEPT !.next = i + 1, !.in_class = FALSE, !.prev = "atom"]
                  ELSE IF it.kind = "bad" THEN bad
                  ELSE IF Ch(p, i + it.len) # "-" THEN [st EXCEPT !.next = i + it.len, !.first = FALSE]
                  ELSE IF that.kind \in {"end", "bad"} THEN bad
                  ELSE IF Ch(p, i + it.len + 1) = "]"
                  THEN [st EXCEPT !.next = i + it.len + 2, !.in_class = FALSE, !.prev = "atom"]
                  ELSE IF it.kind = "category" \/ that.kind = "category" \/ that.code < it.code THEN bad
                  ELSE [st EXCEPT !.next = i + it.len + 1 + that.len, !.first = FALSE])
            ELSE IF quant > 0
            THEN (IF st.prev # "atom" \/ ~br.ok THEN bad
                  ELSE [st EXCEPT !.next = i + quant + mark, !.prev = "rep"])
            ELSE IF c = "["
            THEN [st EXCEPT !.next = IF Ch(p, i + 1) = "^" THEN i + 2 ELSE i + 1, !.in_class = TRUE, !.first = TRUE]
            ELSE IF c = "("
            THEN (IF Ch(p, i + 1) # "?" THEN [st EXCEPT !.next = i + 1, !.depth = @ + 1, !.prev = "none"]
                  ELSE IF Ch(p, i + 2) \in {":", "=", "!"}
                  THEN [st EXCEPT !.next = i + 3, !.depth = @ + 1, !.prev = "none"]
                  ELSE bad)
            ELSE IF c = ")"
            THEN (IF st.depth = 0 THEN bad ELSE [st EXCEPT !.next = i + 1, !.depth = @ - 1, !.prev = "atom"])
            ELSE IF c = "|" THEN [st EXCEPT !.next = i + 1, !.prev = "none"]
            ELSE IF c \in {"^", "$"} THEN [st EXCEPT !.next = i + 1, !.prev = "at"]
            ELSE IF it.kind = "bad" THEN bad
            ELSE [st EXCEPT !.next = i + it.len, !.prev = IF it.kind = "at" THEN "at" ELSE "atom"]

\* re.compile(pattern) returns (TRUE) or raises re.error (FALSE)
re_compiles(pattern) ==
    LET st == FoldRange(LAMBDA t, i : invoke("rx_syntax_step", <<pattern, t, i>>),
                        [next |-> 1, ok |-> TRUE, depth |-> 0, prev |-> "none", in_class |-> FALSE, first |-> FALSE],
                        1, Len(pattern))
    IN st.ok /\ st.depth = 0 /\ ~st.in_class

(***************************************************************************)
(* Plans (plan_v2.py): RegexPlan, normalize, the rule-based planner,       *)
(* _align_columns and _validate_plan                                       *)
(***************************************************************************)
\* Optional[str]
NoText == [some |-> FALSE, s |-> ""]

SomeText(t) == [some |-> TRUE, s |-> t]

\* value or ""
text_or_empty(o) == IF o.some THEN o.s ELSE ""

RegexPlan(intent, pattern, flags, columns, replacement, row_filter) ==
    [intent |-> intent, pattern |-> pattern, flags |-> flags, columns |-> columns,
     replacement |-> replacement, row_filter |-> row_filter]

AllowedFlags == "imsluxUu"

NaLike == {"NA", "N/A", "NaN", "nan", "na"}

\* the characters of s that are in alphabet, in their order
keep_chars(s, alphabet) ==
    FoldRange(LAMBDA acc, i : IF PosIn(alphabet, Ch(s, i)) > 0 THEN acc \o Ch(s, i) ELSE acc, "", 1, Len(s))

\* a normalize that looks for the NA-like texts before it strips the replacement
normalize_unstripped_na(plan) ==
    LET kept == keep_chars(IF plan.flags = "" THEN "i" ELSE plan.flags, AllowedFlags)
        rep0 == text_or_empty(plan.replacement)
        rep == IF strip(rep0) = "" THEN NoText
               ELSE IF rep0 \in NaLike THEN SomeText("N/A (missing)")
               ELSE SomeText(strip(rep0))
    IN [plan EXCEPT !.flags = IF kept = "" THEN "i" ELSE kept, !.replacement = rep,
                    !.pattern = IF strip(plan.pattern) = "" THEN "^.*$" ELSE strip(plan.pattern)]

\* RegexPlan.normalize
normalize(plan) ==
    LET kept == keep_chars(IF plan.flags = "" THEN "i" ELSE plan.flags, AllowedFlags)
        safe == IF kept = "" THEN "i" ELSE kept
        rep0 == strip(text_or_empty(plan.replacement))
        rep == IF rep0 = "" THEN NoText
               ELSE IF rep0 \in NaLike THEN SomeText("N/A (missing)")
               ELSE SomeText(rep0)
        pat0 == strip(plan.pattern)
        pat == IF pat0 = "" THEN "^.*$" ELSE pat0
    IN [plan EXCEPT !.flags = safe, !.replacement = rep, !.pattern = pat]

\* t in s
contains(s, t) == t = "" \/ \E i \in 1..Len(s) : occurs_at(s, t, i)

any_in(words, s) == \E i \in 1..Len(words) : contains(s, words[i])

_guess_pattern(instr) ==
    LET l == invoke("casefold", <<instr>>)
        hit(k) == contains(l, k) \/ (Ch(k, Len(k)) = "s" /\ contains(l, Slice(k, 1, Len(k) - 1)))
        hits == SelectSeq(FallbackKeys, hit)
    IN IF hits # <<>> THEN FALLBACKS(hits[1]) ELSE FALLBACKS("email")

IntentWords == <<"replace", "redact", "mask", "anonym">>

DateNormalizeWords == <<"normalize date", "normalise date", "standardize date", "standardise date", "unify date">>

DateHeaderWords == <<"date", "time", "dob", "birth", "created", "updated", "dt", "timestamp">>

CommonHeaderWords == <<"email", "mail", "phone", "mobile", "date", "time", "url", "link", "note", "comment">>

\* the headers whose lower-cased text holds one of the words
headers_like(headers, words) == SelectSeq(headers, LAMBDA h : any_in(words, invoke("casefold", <<h>>)))

columns_or_none(cols) == IF cols = <<>> THEN NoColumns ELSE SomeColumns(cols)

\* \b at position k
word_boundary(s, k) == IsWord(Ch(s, k - 1)) # IsWord(Ch(s, k))

\* the word w between two \b at position k, letters of any case
bounded_word_at(s, k, w) ==
    StartsAtCI(s, k, w) /\ word_boundary(s, k) /\ word_boundary(s, k + Len(w))

\* (?:=|==|:|\bis\b|\bequals?\b) at position k: the positions after the
\* operator, in the order the alternatives are tried
where_op_ends(s, k) ==
    (IF Ch(s, k) = "=" THEN <<k + 1>> ELSE <<>>)
    \o (IF StartsAt(s, k, "==") THEN <<k + 2>> ELSE <<>>)
    \o (IF Ch(s, k) = ":" THEN <<k + 1>> ELSE <<>>)
    \o (IF bounded_word_at(s, k, "is") THEN <<k + 2>> ELSE <<>>)
    \o (IF bounded_word_at(s, k, "equals") THEN <<k + 6>> ELSE <<>>)
    \o (IF bounded_word_at(s, k, "equal") THEN <<k + 5>> ELSE <<>>)

\* \s*(['"].+?['"]|\d+) at position o: [ok, val]
where_value(s, o) ==
    LET q == SkipSpace(s, o)
        quote(c) == c \in {"'", "\""}
        closers == {c \in (q + 2)..Len(s) : quote(Ch(s, c)) /\ \A x \in (q + 1)..(c - 1) : Ch(s, x) # "\n"}
        c0 == CHOOSE c \in closers : \A x \in closers : c <= x
    IN IF quote(Ch(s, q)) /\ closers # {} THEN [ok |-> TRUE, val |-> Slice(s, q, c0)]
       ELSE IF IsDigit(Ch(s, q)) THEN [ok |-> TRUE, val |-> Slice(s, q, SkipDigits(s, q) - 1)]
       ELSE [ok |-> FALSE, val |-> ""]

\* the rest of the where clause after the column text that ends before e
where_rest(s, e) ==
    LET k == SkipSpace(s, e)
        ends == SelectSeq(invoke("where_op_ends", <<s, k>>), LAMBDA o : invoke("where_value", <<s, o>>).ok)
    IN IF ends = <<>> THEN [ok |-> FALSE, val |-> ""] ELSE invoke("where_value", <<s, ends[1]>>)

\* the where clause at position i: [ok, col, val]; the blanks after the word
\* are given back to the column text one at a time, and the column text
\* gives back its characters from the right
where_at(s, i) ==
    LET w == i + 5
        s_end == SkipSpace(s, w)
        cands == {<<a, e>> \in ((w + 1)..s_end) \X ((w + 2)..(Len(s) + 1)) :
                    /\ a < e
                    /\ \A x \in a..(e - 1) : name_char(Ch(s, x))
                    /\ invoke("where_rest", <<s, e>>).ok}
        first == CHOOSE c \in cands : \A d \in cands : c[1] > d[1] \/ (c[1] = d[1] /\ c[2] >= d[2])
    IN IF bounded_word_at(s, i, "where") /\ ~IsWord(Ch(s, w)) /\ s_end > w /\ cands # {}
       THEN [ok |-> TRUE, col |-> Slice(s, first[1], first[2] - 1), val |-> invoke("where_rest", <<s, first[2]>>).val]
       ELSE [ok |-> FALSE, col |-> "", val |-> ""]

\* re.search of the where clause
where_search(s) ==
    LET hits == {i \in 1..Len(s) : invoke("where_at", <<s, i>>).ok}
    IN IF hits = {} THEN [ok |-> FALSE, col |-> "", val |-> ""]
       ELSE invoke("where_at", <<s, CHOOSE i \in hits : \A j \in hits : i <= j>>)

\* _rule_plan: the plan (its source is always "fallback")
_rule_plan(instruction, headers) ==
    LET l == invoke("casefold", <<instruction>>)
        intent == IF any_in(IntentWords, l) THEN "replace" ELSE "find"
        m == invoke("where_search", <<instruction>>)
        col == strip(m.col)
        val == strip(m.val)
        known == \E i \in 1..Len(headers) : invoke("casefold", <<col>>) = invoke("casefold", <<headers[i]>>)
    IN IF any_in(DateNormalizeWords, l)
       THEN RegexPlan("replace", FALLBACKS("date"), "i", columns_or_none(headers_like(headers, DateHeaderWords)),
                      SomeText("__DATE_NORMALIZE__(YYYY-MM-DD; dayfirst=auto)"), NoText)
       ELSE RegexPlan(intent, invoke("_guess_pattern", <<l>>), "i", columns_or_none(headers_like(headers, CommonHeaderWords)),
                      NoText, IF m.ok /\ known THEN SomeText(col \o " == " \o val) ELSE NoText)

\* the header that canonical[key] holds: the last one with that lower case
canonical_header(headers, key) ==
    LET hs == SelectSeq(headers, LAMBDA h : invoke("casefold", <<h>>) = key)
    IN hs[Len(hs)]

\* _align_columns
_align_columns(plan, headers) ==
    LET legit == {invoke("casefold", <<headers[i]>>) : i \in 1..Len(headers)}
        cols == plan.columns.v
        found == SelectSeq(cols, LAMBDA c : invoke("casefold", <<c>>) \in legit)
        mapped == [i \in 1..Len(found) |-> canonical_header(headers, invoke("casefold", <<found[i]>>))]
    IN IF ~plan.columns.some \/ cols = <<>> \/ mapped = <<>> THEN plan
       ELSE [plan EXCEPT !.columns = SomeColumns(mapped)]

\* one message of PlanValidationError.errors: its kind and what it names
PlanError(kind, what) == [kind |-> kind, what |-> what]

\* re.findall of BT([^BT]+)BT: the names between backticks
tick_at(q, i) ==
    LET j == invoke("bt_name_end", <<q, i>>)
    IN IF j > 0 THEN [ok |-> TRUE, name |-> Slice(q, i + 1, j - 1), next |-> j + 1]
       ELSE [ok |-> FALSE, name |-> "", next |-> i + 1]

find_ticks(q) == re_findall(q, LAMBDA i : tick_at(q, i))

\* the list errors of _validate_plan when its checks are done (lines 161-195)
collect_errors(plan, headers) ==
    LET flags == [i \in 1..Len(plan.flags) |-> Ch(plan.flags, i)]
        bad_flags == SelectSeq(flags, LAMBDA f : PosIn(AllowedFlags, f) = 0)
        legit == {invoke("casefold", <<headers[i]>>) : i \in 1..Len(headers)}
        unknown == SelectSeq(plan.columns.v, LAMBDA c : invoke("casefold", <<c>>) \notin legit)
        ticks == invoke("find_ticks", <<text_or_empty(plan.row_filter)>>)
        legit_names == {headers[i] : i \in 1..Len(headers)}
        bad_ticks == SelectSeq(ticks, LAMBDA t : t.name \notin legit_names)
    IN (IF plan.intent \notin {"find", "replace"} THEN <<PlanError("intent", <<>>)>> ELSE <<>>)
       \o (IF ~invoke("re_compiles", <<plan.pattern>>) THEN <<PlanError("pattern not compilable", <<>>)>> ELSE <<>>)
       \o [i \in 1..Len(bad_flags) |-> PlanError("unsupported flag", <<bad_flags[i]>>)]
       \o (IF plan.columns.some /\ unknown # <<>> THEN <<PlanError("unknown columns", unknown)>> ELSE <<>>)
       \o (IF plan.intent = "replace" /\ text_or_empty(plan.replacement) = ""
           THEN <<PlanError("replacement is required", <<>>)>> ELSE <<>>)
       \o [i \in 1..Len(bad_ticks) |-> PlanError("row_filter references unknown column", <<bad_ticks[i].name>>)]

\* a validation that raises at the first error it meets
_validate_plan_first_only(plan, headers) == Take(collect_errors(plan, headers), 1)

\* _validate_plan: the errors it collects; it returns None when there is
\* none and raises PlanValidationError(errors) otherwise
_validate_plan(plan, headers) == collect_errors(plan, headers)

(***************************************************************************)
(* plan_with_llm (plan_v2.py) and nl_execute (nl_execute.py)               *)
(*                                                                         *)
(* A reply of the language model is "raise" (the call or the parsing of    *)
(* its text raised), "pass" (text that is no plan: the critic's PASS       *)
(* marker or anything else) or "plan" with the plan that was parsed.       *)
(***************************************************************************)
NoPlan == RegexPlan("", "", "", NoColumns, NoText, NoText)

Reply(kind, plan) == [kind |-> kind, plan |-> plan]

PlanFailed == [ok |-> FALSE, plan |-> NoPlan, source |-> ""]

PlanDone(plan, source) == [ok |-> TRUE, plan |-> plan, source |-> source]

\* _plan_from_raw, _align_columns and _validate_plan on one reply:
\* [ok, plan]; ok is FALSE when one of them raised
checked_plan(reply, headers) ==
    LET plan == invoke("_align_columns", <<invoke("normalize", <<reply.plan>>), headers>>)
    IN IF reply.kind = "plan" /\ invoke("_validate_plan", <<plan, headers>>) = <<>>
       THEN [ok |-> TRUE, plan |-> plan]
       ELSE [ok |-> FALSE, plan |-> NoPlan]

\* one attempt (lines 427-438 and 450-463): the generated or repaired plan,
\* then the critic's review of it when the critic is enabled
llm_attempt(reply, critic, headers, enable_critic, source) ==
    LET mine == invoke("checked_plan", <<reply, headers>>)
        theirs == invoke("checked_plan", <<critic, headers>>)
    IN IF ~mine.ok THEN PlanFailed
       ELSE IF ~enable_critic \/ critic.kind = "pass" THEN PlanDone(mine.plan, source)
       ELSE IF theirs.ok THEN PlanDone(theirs.plan, "llm_critic")
       ELSE PlanFailed

\* the critic escalation (lines 471-481)
critic_escalation(critic, headers, enable_critic) ==
    IF enable_critic /\ invoke("checked_plan", <<critic, headers>>).ok
    THEN PlanDone(invoke("checked_plan", <<critic, headers>>).plan, "llm_critic")
    ELSE PlanFailed

\* os.getenv of plan_with_llm: whether the provider is gemini with its
\* module and key, whether the client can be built, and the texts of
\* MAX_LLM_ATTEMPTS and ENABLE_CRITIC
Env(gemini, client, attempts, critic) ==
    [gemini |-> gemini, client |-> client, attempts |-> attempts, critic |-> critic]

\* the repair attempts attempt..MAX_ATTEMPTS (lines 444-468): what they
\* end with, and the numbers of repair calls and of critic calls made;
\* the language model answers every repair request with llm.repair
RECURSIVE repair_attempts(_, _, _, _, _)
repair_attempts(attempt, max_attempts, llm, headers, enable_critic) ==
    IF attempt > max_attempts THEN [done |-> PlanFailed, repairs |-> 0, critics |-> 0]
    ELSE LET mine == invoke("llm_attempt", <<llm.repair, llm.critic[2], headers, enable_critic, "llm_repair">>)
             asked == IF enable_critic /\ invoke("checked_plan", <<llm.repair, headers>>).ok THEN 1 ELSE 0
             rest == repair_attempts(attempt + 1, max_attempts, llm, headers, enable_critic)
         IN IF mine.ok THEN [done |-> mine, repairs |-> 1, critics |-> asked]
            ELSE [done |-> rest.done, repairs |-> 1 + rest.repairs, critics |-> asked + rest.critics]

\* the calls of the language model: generations, repairs, critic reviews
Calls(generate, repair, critic) == [generate |-> generate, repair |-> repair, critic |-> critic]

\* the part of plan_with_llm with a client (lines 424-487): the plan, its
\* source and the calls made
llm_planning(rules, headers, max_attempts, enable_critic, llm) ==
    LET first == invoke("llm_attempt", <<llm.first, llm.critic[1], headers, enable_critic, "llm">>)
        asked == IF enable_critic /\ invoke("checked_plan", <<llm.first, headers>>).ok THEN 1 ELSE 0
        later == invoke("repair_attempts", <<2, max_attempts, llm, headers, enable_critic>>)
        third == invoke("critic_escalation", <<llm.critic[3], headers, enable_critic>>)
        escalated == IF enable_critic THEN 1 ELSE 0
    IN IF first.ok THEN [done |-> first, calls |-> Calls(1, 0, asked)]
       ELSE IF later.done.ok THEN [done |-> later.done, calls |-> Calls(1, later.repairs, asked + later.critics)]
       ELSE [done |-> IF third.ok THEN third ELSE rules,
             calls |-> Calls(1, later.repairs, asked + later.critics + escalated)]

\* plan_with_llm: [raised, plan, source, calls]; llm holds the replies
\* first, repair and critic (one reply for each place the critic is asked)
plan_with_llm(instruction, headers, env, llm) ==
    LET rules == PlanDone(invoke("normalize", <<invoke("_rule_plan", <<instruction, headers>>)>>), "fallback")
        MAX_ATTEMPTS == IF DigitsToNat(env.attempts) < 1 THEN 1 ELSE DigitsToNat(env.attempts)
        ENABLE_CRITIC == env.critic = "0"
        planned == IF ~env.gemini \/ ~env.client THEN [done |-> rules, calls |-> Calls(0, 0, 0)]
                   ELSE invoke("llm_planning", <<rules, headers, MAX_ATTEMPTS, ENABLE_CRITIC, llm>>)
    IN IF env.gemini /\ (env.attempts = "" \/ \E i \in 1..Len(env.attempts) : ~IsDigit(Ch(env.attempts, i)))
       THEN [raised |-> TRUE, plan |-> NoPlan, source |-> "", calls |-> Calls(0, 0, 0)]
       ELSE [raised |-> FALSE, plan |-> planned.done.plan, source |-> planned.done.source, calls |-> planned.calls]

\* the payload of execute_plan after nl_execute has written the plan's
\* source under plan_source and under regex_source (lines 43-47)
nl_payload(payload, source) ==
    [k \in DOMAIN payload \cup {"plan_source", "regex_source"} |->
        IF k \in {"plan_source", "regex_source"} THEN source ELSE payload[k]]

\* nl_execute: [raised, plan, source, handed, result, csv, payload]; handed
\* tells that execute_plan was called with the plan, result is what it
\* gave, csv the rows written to the export file and payload the payload
\* nl_execute returns
nl_execute(df, instruction, want_download, env, llm, lib) ==
    LET planned == invoke("plan_with_llm", <<instruction, df.columns, env, llm>>)
        plan == planned.plan
        result == invoke("execute_plan", <<df, plan.intent, plan.pattern, plan.flags, plan.columns,
                                           text_or_empty(plan.replacement), text_or_empty(plan.row_filter), lib>>)
    IN IF planned.raised
       THEN [raised |-> TRUE, plan |-> NoPlan, source |-> "", handed |-> FALSE, result |-> PlanRaised, csv |-> <<>>,
             payload |-> PlanRaised.payload]
       ELSE [raised |-> result.raised, plan |-> plan, source |-> planned.source, handed |-> TRUE, result |-> result,
             csv |-> IF ~result.raised /\ want_download THEN result.out.rows ELSE <<>>,
             payload |-> IF result.raised THEN result.payload ELSE nl_payload(result.payload, planned.source)]

\* the functions of the program, called by their names: invoke(f, a) is the
\* call of the function named f with the arguments a
invoke(f, a) ==
    CASE f = "_mask_group_with_rownum" -> _mask_group_with_rownum(a[1], a[2])
      [] f = "plan_prologue" -> plan_prologue(a[1], a[2], a[3], a[4], a[5], a[6], a[7])
      [] f = "date_column" -> date_column(a[1], a[2], a[3], a[4], a[5], a[6], a[7], a[8], a[9])
      [] f = "_eval_basic_query" -> _eval_basic_query(a[1], a[2])
      [] f = "disp_str_clause_at" -> disp_str_clause_at(a[1], a[2])
      [] f = "date_shape_at" -> date_shape_at(a[1], a[2], a[3], a[4], a[5], a[6], a[7])
      [] f = "_parse_one" -> _parse_one(a[1], a[2], a[3])
      [] f = "casefold" -> casefold(a[1])
      [] f = "query_atom" -> query_atom(a[1], a[2], a[3])
      [] f = "word_at" -> word_at(a[1], a[2], a[3], a[4])
      [] f = "_display_regex_and_columns_from_row_filter" -> _display_regex_and_columns_from_row_filter(a[1])
      [] f = "rx_spans" -> rx_spans(a[1], a[2], a[3])
      [] f = "_mask_from_clauses" -> _mask_from_clauses(a[1], a[2])
      [] f = "rownum_match_at" -> rownum_match_at(a[1], a[2])
      [] f = "_ensure_mask_from_query" -> _ensure_mask_from_query(a[1], a[2])
      [] f = "execute_plan" -> execute_plan(a[1], a[2], a[3], a[4], a[5], a[6], a[7], a[8])
      [] f = "_normalize_row_filter" -> _normalize_row_filter(a[1], a[2])
      [] f = "three_fields" -> three_fields(a[1], a[2])
      [] f = "astype_opt_end" -> astype_opt_end(a[1], a[2], a[3])
      [] f = "split_scan" -> split_scan(a[1])
      [] f = "dayfirst_fields" -> dayfirst_fields(a[1])
      [] f = "bt_name_end" -> bt_name_end(a[1], a[2])
      [] f = "_to_string" -> _to_string(a[1], a[2])
      [] f = "normalize_date_text" -> normalize_date_text(a[1], a[2], a[3], a[4])
      [] f = "find_branch" -> find_branch(a[1], a[2], a[3], a[4])
      [] f = "plain_replace_branch" -> plain_replace_branch(a[1], a[2], a[3], a[4], a[5])
      [] f = "date_normalize_branch" -> date_normalize_branch(a[1], a[2], a[3], a[4], a[5], a[6], a[7])
      [] f = "replace_column" -> replace_column(a[1], a[2], a[3], a[4], a[5], a[6])
      [] f = "_highlight_html" -> _highlight_html(a[1], a[2], a[3])
      [] f = "count_column" -> count_column(a[1], a[2], a[3], a[4], a[5])
      [] f = "rx_compile" -> rx_compile(a[1])
      [] f = "rx_sub" -> rx_sub(a[1], a[2], a[3], a[4])
      [] f = "rx_count" -> rx_count(a[1], a[2], a[3])
      [] f = "str_op_mask" -> str_op_mask(a[1], a[2])
      [] f = "eq_ci_mask" -> eq_ci_mask(a[1], a[2], a[3])
      [] f = "num_cmp_mask" -> num_cmp_mask(a[1], a[2], a[3], a[4])
      [] f = "find_eq_clauses" -> find_eq_clauses(a[1])
      [] f = "find_num_clauses" -> find_num_clauses(a[1])
      [] f = "find_str_clauses" -> find_str_clauses(a[1])
      [] f = "str_clause_at" -> str_clause_at(a[1], a[2])
      [] f = "_auto_columns" -> _auto_columns(a[1], a[2], a[3], a[4])
      [] f = "_compile_flags" -> _compile_flags(a[1])
      [] f = "guess_dayfirst" -> guess_dayfirst(a[1])
      [] f = "normalize_cell_as_whole" -> normalize_cell_as_whole(a[1], a[2], a[3], a[4])
      [] f = "sentinel_options" -> sentinel_options(a[1])
      [] f = "dayfirst_samples" -> dayfirst_samples(a[1], a[2], a[3])
      [] f = "df_query" -> df_query(a[1], a[2])
      [] f = "zero_hit_fallback" -> zero_hit_fallback(a[1], a[2], a[3], a[4], a[5])
      [] f = "_split_top_level" -> _split_top_level(a[1])
      [] f = "_remove_rownum_clauses" -> _remove_rownum_clauses(a[1])
      [] f = "soft_recall_mask" -> soft_recall_mask(a[1], a[2], a[3])
      [] f = "soft_recall_match" -> soft_recall_match(a[1])
      [] f = "_has_string_equality" -> _has_string_equality(a[1])
      [] f = "rewrite_and_or" -> rewrite_and_or(a[1])
      [] f = "or_groups" -> or_groups(a[1], a[2])
      [] f = "_mask_from_query_with_rownum" -> _mask_from_query_with_rownum(a[1], a[2])
      [] f = "strptime" -> strptime(a[1], a[2])
      [] f = "strptime_fallback" -> strptime_fallback(a[1])
      [] f = "re_compiles" -> re_compiles(a[1])
      [] f = "rx_syntax_step" -> rx_syntax_step(a[1], a[2], a[3])
      [] f = "rx_item" -> rx_item(a[1], a[2], a[3])
      [] f = "rx_brace" -> rx_brace(a[1], a[2])
      [] f = "plain_shape_end" -> plain_shape_end(a[1], a[2], a[3], a[4], a[5], a[6], a[7])
      [] f = "where_at" -> where_at(a[1], a[2])
      [] f = "where_rest" -> where_rest(a[1], a[2])
      [] f = "where_op_ends" -> where_op_ends(a[1], a[2])
      [] f = "where_value" -> where_value(a[1], a[2])
      [] f = "plan_with_llm" -> plan_with_llm(a[1], a[2], a[3], a[4])
      [] f = "llm_planning" -> llm_planning(a[1], a[2], a[3], a[4], a[5])
      [] f = "repair_attempts" -> repair_attempts(a[1], a[2], a[3], a[4], a[5])
      [] f = "llm_attempt" -> llm_attempt(a[1], a[2], a[3], a[4], a[5])
      [] f = "checked_plan" -> checked_plan(a[1], a[2])
      [] f = "critic_escalation" -> critic_escalation(a[1], a[2], a[3])
      [] f = "nl_execute" -> nl_execute(a[1], a[2], a[3], a[4], a[5], a[6])
      [] f = "email_end" -> email_end(a[1], a[2])
      [] f = "date_fallback_end" -> date_fallback_end(a[1], a[2])
      [] f = "normalize" -> normalize(a[1])
      [] f = "_guess_pattern" -> _guess_pattern(a[1])
      [] f = "where_search" -> where_search(a[1])
      [] f = "_rule_plan" -> _rule_plan(a[1], a[2])
      [] f = "_align_columns" -> _align_columns(a[1], a[2])
      [] f = "find_ticks" -> find_ticks(a[1])
      [] f = "_validate_plan" -> _validate_plan(a[1], a[2])
      [] f = "library_parse" -> library_parse(a[1], a[2])
      [] f = "strftime" -> strftime(a[1], a[2], a[3])
      [] f = "_to_numeric" -> _to_numeric(a[1], a[2])
      [] f = "comma_kwarg_end" -> comma_kwarg_end(a[1], a[2], a[3], a[4])
      [] f = "ordinal_at" -> ordinal_at(a[1], a[2])
      [] f = "alt_end" -> alt_end(a[1], a[2], a[3], a[4])
      [] f = "date_token_end" -> date_token_end(a[1], a[2])
      [] f = "_MATCH_ALL_RE" -> _MATCH_ALL_RE(a[1])
      [] f = "str_tail" -> str_tail(a[1], a[2])

(***************************************************************************)
(* Datasets and plans of the state machine                                 *)
(***************************************************************************)
\* longest dataset given to the row filter operations
MaxRows == 2

\* longest dataset given to execute_plan
MaxPlanRows == 2

Headers == <<"Country", "Age", "Years", "Floor">>

\* the same sheet with a backslash in its last header
EscHeaders == <<"Country", "Age", "Years", "a\\d">>

\* the rows datasets are made of: Country is text, Age numeric, Years text
\* holding numbers, Floor text; cells may be missing
RowPool ==
    << <<Str("US"), Num(30), Str("35"), Str("G")>>,
       <<Str("us"), Num(25), Str("n/a"), Str("2")>>,
       <<Null, Null, Str("-7"), Null>> >>

PlanHeaders == <<"Country", "Age", "Note">>

EscPlanHeaders == <<"Country", "Age", "a\\d">>

\* rows of the datasets given to execute_plan: Note holds a two-line text,
\* a date, or nothing
PlanRowPool ==
    << <<Str("US"), Num(30), Str("a\nb")>>,
       <<Str("us"), Num(25), Str("1/2/2024")>>,
       <<Null, Null, Null>> >>

\* all sequences over 1..k of length at most n
RECURSIVE SeqsUpTo(_, _)
SeqsUpTo(k, n) ==
    IF n = 0 THEN {<<>>}
    ELSE SeqsUpTo(k, n - 1) \cup {Append(q, i) : q \in {x \in SeqsUpTo(k, n - 1) : Len(x) = n - 1}, i \in 1..k}

Frame(columns, numcols, pool, picks) ==
    [id |-> "caller", columns |-> columns, numcols |-> numcols, rows |-> [i \in 1..Len(picks) |-> pool[picks[i]]]]

FilterDatasets ==
    {Frame(Headers, {"Age"}, RowPool, q) : q \in SeqsUpTo(Len(RowPool), MaxRows)}
    \cup {Frame(EscHeaders, {"Age"}, RowPool, <<1>>)}

\* no row of the pool is taken twice
NoRepeat(q) == \A i, j \in 1..Len(q) : i # j => q[i] # q[j]

PlanDatasets ==
    {Frame(PlanHeaders, {"Age"}, PlanRowPool, q) : q \in {x \in SeqsUpTo(Len(PlanRowPool), MaxPlanRows) : NoRepeat(x)}}
    \cup {Frame(EscPlanHeaders, {"Age"}, PlanRowPool, <<1>>)}

\* the shapes of row filter the operations are given; a shape is
\* [kind, col, lit, lo, hi, n] and Render writes its text
Shape(kind, col, lit, lo, hi, n) == [kind |-> kind, col |-> col, lit |-> lit, lo |-> lo, hi |-> hi, n |-> n]

RangePairs == {<<30, 40>>, <<1, 3>>, <<-5, 40>>}

EqColumns == {"Country", "Floor"}

EqLiterals == {"US", "Us", "zz", "g"}

RowNumbers == 0..(MaxRows + 1)

JunkFilters == {"foo bar", "(((", "Age >", bq("Nope") \o " == 'x'"}

eq_text(col, lit) == bq(col) \o " == '" \o lit \o "'"

range_text(col, lo, hi) == bq(col) \o " >= " \o IntToStr(lo) \o " and " \o bq(col) \o " < " \o IntToStr(hi)

rownum_text(n) == "__rownum__ == " \o NatToStr(n)

Render(sh) ==
    CASE sh.kind = "blank" -> sh.lit
      [] sh.kind = "junk" -> sh.lit
      [] sh.kind = "range" -> range_text(sh.col, sh.lo, sh.hi)
      [] sh.kind = "eq" -> eq_text(sh.col, sh.lit)
      [] sh.kind = "rownum" -> rownum_text(sh.n)
      [] sh.kind = "or" -> eq_text(sh.col, sh.lit) \o " or " \o rownum_text(sh.n)
      [] sh.kind = "eq_rownum" -> eq_text(sh.col, sh.lit) \o " and " \o rownum_text(sh.n)
      [] OTHER -> bq(sh.col) \o " >= " \o IntToStr(sh.lo) \o " and " \o rownum_text(sh.n)

BlankShapes == {Shape("blank", "", t, 0, 0, 0) : t \in {"", "  "}}

JunkShapes == {Shape("junk", "", t, 0, 0, 0) : t \in JunkFilters}

RangeShapes == {Shape("range", c, "", p[1], p[2], 0) : c \in {"Age", "Years", "Floor"}, p \in RangePairs}

EqShapes == {Shape("eq", c, l, 0, 0, 0) : c \in EqColumns, l \in EqLiterals}

RownumShapes == {Shape("rownum", "", "", 0, 0, n) : n \in RowNumbers}

OrShapes == {Shape("or", c, l, 0, 0, n) : c \in EqColumns, l \in {"US", "g"}, n \in {1, 2}}

EqRownumShapes == {Shape("eq_rownum", c, l, 0, 0, n) : c \in EqColumns, l \in {"US", "g"}, n \in RowNumbers}

RangeRownumShapes == {Shape("range_rownum", "Age", "", 30, 0, n) : n \in RowNumbers}

\* the filters given to _ensure_mask_from_query
FilterShapes ==
    BlankShapes \cup JunkShapes \cup RangeShapes \cup EqShapes \cup RownumShapes \cup OrShapes
    \cup {sh \in EqRownumShapes : sh.col = "Country" /\ sh.lit = "US" /\ sh.n \in {1, 2}}

\* the OR-groups given to _mask_group_with_rownum
GroupShapes == EqRownumShapes \cup RangeRownumShapes \cup RownumShapes \cup {sh \in EqShapes : sh.lit = "US"}

\* the plans given to execute_plan
Patterns == {"", "^.*$", "us"}

FlagTexts == {"i", "im"}

ColumnChoices == {NoColumns, SomeColumns(<<>>), SomeColumns(<<"Age">>), SomeColumns(<<"Country", "Note">>)}

PlanFilters == {"", eq_text("Country", "US"), bq("Age") \o " >= 30"}

DateSentinel == "__DATE_NORMALIZE__(YYYY-MM-DD; dayfirst=auto)"

(***************************************************************************)
(* The state machine: a caller holding a dataset calls one operation and   *)
(* receives its result.                                                    *)
(***************************************************************************)
VARIABLES
    df,         \* the cells of the caller's dataset object
    pc,         \* "idle", or "returned" once the call has returned
    call,       \* the operation called and its arguments
    mask_ret,   \* what _ensure_mask_from_query returned
    group_ret,  \* what _mask_group_with_rownum returned
    plan_ret,   \* what execute_plan returned
    ret         \* what any other function returned

vars == <<df, pc, call, mask_ret, group_ret, plan_ret, ret>>

NoShape == Shape("none", "", "", 0, 0, 0)

\* the build without date library, whose strftime does not pad the year
NoLib == [parser |-> "none", pad_year |-> FALSE]

NoCall ==
    [op |-> "none", shape |-> NoShape, row_filter |-> "", intent |-> "", pattern |-> "", flags |-> "",
     columns |-> NoColumns, replacement |-> "", lib |-> NoLib, before |-> <<>>, args |-> <<>>]

NoRet == [op |-> "none"]

NoMaskRet == [raised |-> FALSE, mask |-> <<>>, norm |-> "", groups |-> <<>>]

NoGroupRet == [mask |-> <<>>, path |-> "", base |-> <<>>, rownums |-> <<>>]

NoPlanRet == [raised |-> FALSE, out |-> [id |-> "none"], payload |-> [mode |-> "none"]]

Idle == pc = "idle" /\ call = NoCall /\ mask_ret = NoMaskRet /\ group_ret = NoGroupRet /\ plan_ret = NoPlanRet /\ ret = NoRet

InitFilter == df \in FilterDatasets /\ Idle

InitPlan == df \in PlanDatasets /\ Idle

Init == df \in FilterDatasets \cup PlanDatasets /\ Idle

\* the caller calls _ensure_mask_from_query(df, row_filter)
EnsureMask ==
    /\ pc = "idle"
    /\ df.columns \in {Headers, EscHeaders}
    /\ \E sh \in FilterShapes :
         /\ call' = [NoCall EXCEPT !.op = "_ensure_mask_from_query", !.shape = sh, !.row_filter = Render(sh),
                                   !.before = df]
         /\ mask_ret' = invoke("_ensure_mask_from_query", <<df, Render(sh)>>)
    /\ pc' = "returned"
    /\ UNCHANGED <<df, group_ret, plan_ret, ret>>

\* the caller calls _mask_group_with_rownum(df, group_expr)
MaskGroup ==
    /\ pc = "idle"
    /\ df.columns \in {Headers, EscHeaders}
    /\ \E sh \in GroupShapes :
         /\ call' = [NoCall EXCEPT !.op = "_mask_group_with_rownum", !.shape = sh, !.row_filter = Render(sh),
                                   !.before = df]
         /\ group_ret' = invoke("_mask_group_with_rownum", <<df, Render(sh)>>)
    /\ pc' = "returned"
    /\ UNCHANGED <<df, mask_ret, plan_ret, ret>>

\* the dataset the caller holds after a call that returned the frame out:
\* writes made through the caller's own object are seen by the caller
after_call(r) == IF ~r.raised /\ r.out.id = "caller" THEN r.out ELSE df

\* the caller calls execute_plan with the arguments of c
ExecutePlan(c) ==
    /\ pc = "idle"
    /\ df.columns \in {PlanHeaders, EscPlanHeaders}
    /\ call' = [c EXCEPT !.op = "execute_plan", !.before = df]
    /\ plan_ret' = invoke("execute_plan", <<df, c.intent, c.pattern, c.flags, c.columns, c.replacement, c.row_filter, c.lib>>)
    /\ df' = after_call(plan_ret')
    /\ pc' = "returned"
    /\ UNCHANGED <<mask_ret, group_ret, ret>>

Plan(intent, pattern, flags, columns, replacement, row_filter, lib) ==
    [NoCall EXCEPT !.intent = intent, !.pattern = pattern, !.flags = flags, !.columns = columns,
                   !.replacement = replacement, !.row_filter = row_filter, !.lib = lib]

\* execute_plan with intent find
ExecuteFind ==
    \E p \in Patterns, cs \in ColumnChoices, rf \in PlanFilters :
        ExecutePlan(Plan("find", p, "i", cs, "", rf, NoLib))

\* execute_plan with intent replace and a replacement text
ExecuteReplace ==
    \E p \in Patterns, f \in FlagTexts, cs \in ColumnChoices, rf \in PlanFilters :
        ExecutePlan(Plan("replace", p, f, cs, "X", rf, NoLib))

\* execute_plan with intent replace and the date sentinel, in every build
ExecuteDateNormalize ==
    \E p \in {"", "^.*$"}, cs \in ColumnChoices, rf \in {"", eq_text("Country", "US")}, lib \in DateLibs :
        ExecutePlan(Plan("replace", p, "i", cs, DateSentinel, rf, lib))

\* the caller drops the result
Return ==
    /\ pc = "returned"
    /\ pc' = "idle"
    /\ call' = NoCall
    /\ mask_ret' = NoMaskRet
    /\ group_ret' = NoGroupRet
    /\ plan_ret' = NoPlanRet
    /\ ret' = NoRet
    /\ UNCHANGED df

NextFilter == EnsureMask \/ MaskGroup \/ Return

NextPlan == ExecuteFind \/ ExecuteReplace \/ ExecuteDateNormalize \/ Return

Next == EnsureMask \/ MaskGroup \/ ExecuteFind \/ ExecuteReplace \/ ExecuteDateNormalize \/ Return

Spec == Init /\ [][Next]_vars

SpecFilter == InitFilter /\ [][NextFilter]_vars

SpecPlan == InitPlan /\ [][NextPlan]_vars

(***************************************************************************)
(* Calls of the date functions                                             *)
(***************************************************************************)
DateTexts ==
    {"Born 2024-5-1", "0024-01-02", "1/2/24", "on 13/02/2024 and 2024.5.1", "2024-05/01", "31/04/2024",
     "due 20240501", "no date", ""}

CellValues == {Num(45292), Num(10000), Num(80000), Num(9999), Num(30), Str("2024-5-1"), Str("45292"), Null}

SamplePool == <<"31/12/2020", "15/01/2021", "01/02/2020 on the 13", "05/01/2021", "n/a">>

\* the lists of at most MaxSamples samples of the pool, without repetition
MaxSamples == 2

SampleLists ==
    {[i \in 1..Len(q) |-> SamplePool[q[i]]] : q \in {x \in SeqsUpTo(Len(SamplePool), MaxSamples) : NoRepeat(x)}}

InitDate == df = Frame(PlanHeaders, {"Age"}, PlanRowPool, <<>>) /\ Idle

\* normalize_date_text(text, "YYYY-MM-DD", dayfirst) in the build lib
DateTextCall(text, dayfirst, lib, pass) ==
    /\ call' = [NoCall EXCEPT !.op = "normalize_date_text", !.lib = lib,
                              !.args = [text |-> text, dayfirst |-> dayfirst, pass |-> pass]]
    /\ ret' = invoke("normalize_date_text", <<text, "YYYY-MM-DD", dayfirst, lib>>)
    /\ pc' = "returned"
    /\ UNCHANGED <<df, mask_ret, group_ret, plan_ret>>

\* the caller normalizes a text
NormalizeDateText ==
    /\ pc = "idle"
    /\ \E text \in DateTexts, dayfirst \in BOOLEAN, lib \in DateLibs : DateTextCall(text, dayfirst, lib, 1)

\* the caller normalizes the text the first call returned
NormalizeDateTextAgain ==
    /\ pc = "returned" /\ call.op = "normalize_date_text" /\ call.args.pass = 1
    /\ DateTextCall(ret.text, call.args.dayfirst, call.lib, 2)

\* the caller calls normalize_cell_as_whole(value, "YYYY-MM-DD", dayfirst)
NormalizeCellAsWhole ==
    /\ pc = "idle"
    /\ \E value \in CellValues, dayfirst \in BOOLEAN, lib \in DateLibs :
         /\ call' = [NoCall EXCEPT !.op = "normalize_cell_as_whole", !.lib = lib,
                                   !.args = [value |-> value, dayfirst |-> dayfirst]]
         /\ ret' = invoke("normalize_cell_as_whole", <<value, "YYYY-MM-DD", dayfirst, lib>>)
    /\ pc' = "returned"
    /\ UNCHANGED <<df, mask_ret, group_ret, plan_ret>>

\* the caller calls guess_dayfirst(samples)
GuessDayfirst ==
    /\ pc = "idle"
    /\ \E samples \in SampleLists :
         /\ call' = [NoCall EXCEPT !.op = "guess_dayfirst", !.args = [samples |-> samples]]
         /\ ret' = [answer |-> invoke("guess_dayfirst", <<samples>>)]
    /\ pc' = "returned"
    /\ UNCHANGED <<df, mask_ret, group_ret, plan_ret>>

NextDate == NormalizeDateText \/ NormalizeDateTextAgain \/ NormalizeCellAsWhole \/ GuessDayfirst \/ Return

SpecDate == InitDate /\ [][NextDate]_vars

(***************************************************************************)
(* Calls of the planner: normalize, _validate_plan, plan_with_llm and      *)
(* nl_execute                                                              *)
(***************************************************************************)
MailHeaders == <<"Country", "Email", "Joined Date">>

MailRowPool ==
    << <<Str("US"), Str("a@b.co, c@d.org"), Str("1/2/2024")>>,
       <<Str("us"), Str("none"), Str("on 2024-5-1")>> >>

MailDatasets == {Frame(MailHeaders, {}, MailRowPool, q) : q \in {<<1>>, <<1, 2>>}}

InitPlanner == df \in MailDatasets /\ Idle

\* the plans given to _validate_plan: the names between backticks of the
\* row filter are kept beside the plan
TickFilter(names) ==
    IF names = <<>> THEN NoText
    ELSE SomeText(join([i \in 1..Len(names) |-> bq(names[i]) \o " == 'x'"], " and "))

ValidationIntents == {"find", "replace", "delete"}

ValidationPatterns == {"us", "("}

ValidationFlags == {"i", "zq", "imz"}

ValidationColumns == {NoColumns, SomeColumns(<<"email">>), SomeColumns(<<"Nope", "COUNTRY", "zip">>)}

ValidationReplacements == {NoText, SomeText(""), SomeText("X")}

ValidationTicks == {<<>>, <<"Country">>, <<"country", "Email", "Nope">>}

\* the caller validates a plan against the headers of the dataset
ValidatePlan ==
    /\ pc = "idle"
    /\ \E intent \in ValidationIntents, pattern \in ValidationPatterns, flags \in ValidationFlags,
          columns \in ValidationColumns, replacement \in ValidationReplacements, ticks \in ValidationTicks :
         LET plan == RegexPlan(intent, pattern, flags, columns, replacement, TickFilter(ticks))
         IN /\ call' = [NoCall EXCEPT !.op = "_validate_plan",
                                      !.args = [plan |-> plan, headers |-> df.columns, ticks |-> ticks]]
            /\ ret' = [errors |-> invoke("_validate_plan", <<plan, df.columns>>), plan |-> plan, headers |-> df.columns]
    /\ pc' = "returned"
    /\ UNCHANGED <<df, mask_ret, group_ret, plan_ret>>

NormalizeFlags == {"", "i", "zq", "IMz ", "uxz"}

NormalizePatterns == {"", "  ", " us ", "^.*$"}

NormalizeReplacements ==
    {NoText} \cup {SomeText(t) : t \in {"", " ", "NA", " N/A ", "NaN", "nan", "na", " X ", "N/A (missing)", "n/a"}}

\* the caller normalizes a plan
NormalizePlan ==
    /\ pc = "idle"
    /\ \E intent \in {"replace"}, pattern \in NormalizePatterns, flags \in NormalizeFlags,
          replacement \in NormalizeReplacements :
         LET plan == RegexPlan(intent, pattern, flags, NoColumns, replacement, NoText)
         IN /\ call' = [NoCall EXCEPT !.op = "normalize", !.args = [plan |-> plan]]
            /\ ret' = [plan |-> invoke("normalize", <<plan>>)]
    /\ pc' = "returned"
    /\ UNCHANGED <<df, mask_ret, group_ret, plan_ret>>

\* plans the language model answers with
GoodFind == RegexPlan("find", "us", "i", SomeColumns(<<"country">>), NoText, SomeText(eq_text("Country", "US")))

GoodReplace == RegexPlan("replace", " us ", "imz", SomeColumns(<<"email", "Nope">>), SomeText(" X "), NoText)

BadReplace == RegexPlan("replace", "(", "i", SomeColumns(<<"Nope">>), SomeText(" "), NoText)

BadTick == RegexPlan("find", "us", "i", NoColumns, NoText, SomeText(eq_text("country", "US")))

Raise == Reply("raise", NoPlan)

Pass == Reply("pass", NoPlan)

FirstReplies == {Raise, Reply("plan", GoodFind), Reply("plan", BadReplace)}

RepairReplies == {Raise, Reply("plan", GoodReplace), Reply("plan", BadTick)}

CriticReplies ==
    {<<Pass, Pass, Pass>>, <<Reply("plan", GoodReplace), Raise, Reply("plan", BadReplace)>>,
     <<Reply("plan", BadTick), Reply("plan", GoodFind), Reply("plan", GoodFind)>>}

Llm(first, repair, critic) == [first |-> first, repair |-> repair, critic |-> critic]

RuleBased == Env(FALSE, TRUE, "2", "0")

Envs == {RuleBased, Env(TRUE, TRUE, "2", "0"), Env(TRUE, TRUE, "2", "1"), Env(TRUE, TRUE, "0", "0"),
         Env(TRUE, TRUE, "3", "1"), Env(TRUE, TRUE, "3", "0"),
         Env(TRUE, FALSE, "2", "0"), Env(TRUE, TRUE, "two", "0")}

Instructions ==
    {"replace emails with X", "normalize dates", "find emails where country is 'US'", "find urls where city = 'x'"}

\* the caller asks for a plan
PlanWithLlm ==
    /\ pc = "idle"
    /\ \E instruction \in Instructions, env \in Envs, first \in FirstReplies, repair \in RepairReplies,
          critic \in CriticReplies :
         /\ call' = [NoCall EXCEPT !.op = "plan_with_llm",
                                   !.args = [instruction |-> instruction, env |-> env, llm |-> Llm(first, repair, critic)]]
         /\ ret' = invoke("plan_with_llm", <<instruction, df.columns, env, Llm(first, repair, critic)>>)
    /\ pc' = "returned"
    /\ UNCHANGED <<df, mask_ret, group_ret, plan_ret>>

ExecuteInstructions == {"find emails", "replace emails with X", "normalize dates", "find emails where country is 'US'"}

\* the environment and the replies of one execution: the rule-based
\* planner, a plan accepted at once, a repaired plan, a plan of the critic,
\* and every reply failing
ExecuteSettings ==
    {<<RuleBased, Llm(Raise, Raise, <<Pass, Pass, Pass>>)>>,
     <<Env(TRUE, TRUE, "2", "1"), Llm(Reply("plan", GoodFind), Raise, <<Pass, Pass, Pass>>)>>,
     <<Env(TRUE, TRUE, "2", "0"), Llm(Reply("plan", BadReplace), Reply("plan", GoodReplace), <<Pass, Pass, Pass>>)>>,
     <<Env(TRUE, TRUE, "1", "0"), Llm(Reply("plan", BadTick), Raise, <<Raise, Raise, Reply("plan", GoodReplace)>>)>>,
     <<Env(TRUE, TRUE, "2", "0"), Llm(Reply("plan", BadTick), Reply("plan", BadReplace), <<Pass, Pass, Raise>>)>>}

\* the caller executes an instruction on the dataset, in some build
NlExecute ==
    /\ pc = "idle"
    /\ \E instruction \in ExecuteInstructions, want_download \in BOOLEAN, setting \in ExecuteSettings, lib \in DateLibs :
         /\ call' = [NoCall EXCEPT !.op = "nl_execute", !.lib = lib, !.before = df,
                                   !.args = [instruction |-> instruction, want_download |-> want_download,
                                             env |-> setting[1], llm |-> setting[2]]]
         /\ ret' = invoke("nl_execute", <<df, instruction, want_download, setting[1], setting[2], lib>>)
    /\ plan_ret' = ret'.result
    /\ df' = after_call(plan_ret')
    /\ pc' = "returned"
    /\ UNCHANGED <<mask_ret, group_ret>>

NextPlanner == ValidatePlan \/ NormalizePlan \/ PlanWithLlm \/ NlExecute \/ Return

SpecPlanner == InitPlanner /\ [][NextPlanner]_vars

(***************************************************************************)
(* Calls of execute_plan with a row filter no tier recognises              *)
(***************************************************************************)
\* a filter every row with an age satisfies
GenuineFilter == bq("Age") \o " >= 0"

FallbackFilters == {"foo bar", "Age >", "foo bar or " \o eq_text("Country", "zz"), GenuineFilter}

\* execute_plan with one of these filters
ExecuteFiltered ==
    \E intent \in {"find", "replace"}, p \in {"", "us"}, rf \in FallbackFilters :
        ExecutePlan(Plan(intent, p, "i", NoColumns, IF intent = "replace" THEN "X" ELSE "", rf, NoLib))

NextFallback == ExecuteFiltered \/ Return

SpecFallback == InitPlan /\ [][NextFallback]_vars

(***************************************************************************)
(* Calls of _split_top_level and _remove_rownum_clauses                    *)
(***************************************************************************)
\* conditions with the word or inside a quoted literal or parentheses only
QuotedPieces ==
    <<bq("A") \o " == 'x or y'",
      "b == \"p or q\"",
      "(c > 1 or d < 2)",
      "e == 'it\\'s or not'",
      "f == \"say \\\" or \\\" now\"",
      "g > 5",
      "h == \"it's or not\"",
      "((i or j) and k)">>

\* most conditions joined into one expression
MaxGroups == 2

PieceLists == {[i \in 1..Len(q) |-> QuotedPieces[q[i]]] : q \in SeqsUpTo(Len(QuotedPieces), MaxGroups) \ {<<>>}}

\* expressions with no condition on one side of an or, or with none at all
DegenerateExprs == {"", "  ", "or", " or ", "g > 5 or ", " OR g > 5", "g > 5 or or g > 5", "()", "or or"}

\* conditions on names that hold the letters o, r
NamePieces ==
    {eq_text("Color", "red"), eq_text("Floor", "g"), bq("Author"), "Author == 'x'", "Colored > 1", "order == 2",
     "sort > 1", " factor_or > 2 ", bq("Age") \o " > 3"}

SplitCall(kind, pieces, expr) ==
    /\ call' = [NoCall EXCEPT !.op = "_split_top_level", !.args = [kind |-> kind, pieces |-> pieces, expr |-> expr]]
    /\ ret' = [parts |-> invoke("_split_top_level", <<expr>>)]
    /\ pc' = "returned"
    /\ UNCHANGED <<df, mask_ret, group_ret, plan_ret>>

\* the caller splits an expression into its OR-groups
SplitTopLevel ==
    /\ pc = "idle"
    /\ \/ \E pieces \in PieceLists, sep \in {" or ", " OR ", "  or\t"}, pad \in {"", " "} :
            SplitCall("quoted", pieces, pad \o join(pieces, sep) \o pad)
       \/ \E expr \in DegenerateExprs : SplitCall("degenerate", <<>>, expr)
       \/ \E expr \in NamePieces : SplitCall("names", <<>>, expr)

RownumSpellings == {"__rownum__", "row", "row_number", "index"}

RownumValues == {0, 1, 12}

\* the caller takes the row-number clauses out of a group
RemoveRownumClauses ==
    /\ pc = "idle"
    /\ \E name \in RownumSpellings, ticks \in BOOLEAN, n \in RownumValues, eq \in {" == ", "=="},
          before \in {"", bq("Age") \o " > 3 and "} :
         LET clause == (IF ticks THEN bq(name) ELSE name) \o eq \o NatToStr(n)
         IN /\ call' = [NoCall EXCEPT !.op = "_remove_rownum_clauses",
                                      !.args = [name |-> name, ticks |-> ticks, n |-> n, before |-> before,
                                                expr |-> before \o clause]]
            /\ ret' = invoke("_remove_rownum_clauses", <<before \o clause>>)
    /\ pc' = "returned"
    /\ UNCHANGED <<df, mask_ret, group_ret, plan_ret>>

NextSplit == SplitTopLevel \/ RemoveRownumClauses \/ Return

SpecSplit == InitDate /\ [][NextSplit]_vars

(***************************************************************************)
(* Calls of execute_plan, intent find, with a row filter of one predicate  *)
(***************************************************************************)
PredicateOps == {"contains", "match", "fullmatch", "startswith", "endswith"}

\* `col`.str.op('lit')
str_text(col, op, lit) == bq(col) \o ".str." \o op \o "('" \o lit \o "')"

\* the predicates, as shapes: kind is "eq" or the name of the string method
PredicateShapes ==
    {Shape(op, "Note", l, 0, 0, 0) : op \in PredicateOps, l \in {"a", "1/2"}}
    \cup {Shape("eq", "Country", l, 0, 0, 0) : l \in {"US", "a b"}}

PredicateText(sh) == IF sh.kind = "eq" THEN eq_text(sh.col, sh.lit) ELSE str_text(sh.col, sh.kind, sh.lit)

\* patterns that are empty or of the match-all form
TrivialPatterns == {"", "^.*$"}

\* execute_plan with intent find, a trivial pattern and a predicate filter
ExecuteFindPredicate ==
    \E p \in TrivialPatterns, cs \in {NoColumns, SomeColumns(<<"Age">>)}, sh \in PredicateShapes :
        ExecutePlan([Plan("find", p, "i", cs, "", PredicateText(sh), NoLib) EXCEPT !.shape = sh])

NextPredicate == ExecuteFindPredicate \/ Return

InitPredicate == df \in {d \in PlanDatasets : d.columns = PlanHeaders} /\ Idle

SpecPredicate == InitPredicate /\ [][NextPredicate]_vars

(***************************************************************************)
(* Calls of execute_plan, intent replace, with and without a replacement   *)
(***************************************************************************)
\* execute_plan with intent replace and no replacement text
ExecuteReplaceAbsent ==
    \E p \in {"^.*$", "us"}, f \in FlagTexts, cs \in {NoColumns, SomeColumns(<<"Country", "Note">>)}, rf \in PlanFilters :
        ExecutePlan(Plan("replace", p, f, cs, "", rf, NoLib))

NextReplace == ExecuteReplace \/ ExecuteReplaceAbsent \/ Return

SpecReplace == InitPlan /\ [][NextReplace]_vars

(***************************************************************************)
(* Calls of guess_dayfirst with many samples                               *)
(***************************************************************************)
\* most ambiguous samples without a day hint in one call
MaxAmbiguous == 6

\* most ambiguous samples with a day hint in one call
MaxHinted == 3

\* n copies of the sample t
Copies(t, n) == [i \in 1..n |-> t]

\* a sample without a date, an ambiguous date, an ambiguous date with a
\* number that can only be a day
NoDateSample == "n/a"

PlainSample == "05/01/2021"

HintedSample == "01/02/2020 on the 13"

\* guess_dayfirst on pad samples without a date, then hinted ambiguous
\* samples with a day hint and plain without, in either order
GuessDayfirstMany ==
    /\ pc = "idle"
    /\ \E pad \in {0, SampleCap - 1, SampleCap}, hinted \in 0..MaxHinted, plain \in 0..MaxAmbiguous,
          hinted_first \in BOOLEAN :
         LET samples == Copies(NoDateSample, pad)
                        \o (IF hinted_first THEN Copies(HintedSample, hinted) \o Copies(PlainSample, plain)
                            ELSE Copies(PlainSample, plain) \o Copies(HintedSample, hinted))
         IN /\ call' = [NoCall EXCEPT !.op = "guess_dayfirst", !.args = [samples |-> samples]]
            /\ ret' = [answer |-> invoke("guess_dayfirst", <<samples>>)]
    /\ pc' = "returned"
    /\ UNCHANGED <<df, mask_ret, group_ret, plan_ret>>

NextGuess == GuessDayfirst \/ GuessDayfirstMany \/ Return

SpecGuess == InitDate /\ [][NextGuess]_vars

(***************************************************************************)
(* Calls of _mask_group_with_rownum with a string equality and a clause    *)
(* the manual matcher does not recognise                                   *)
(***************************************************************************)
\* `Country` == 'lit' and `Age` != n, or ... and `Age` == n
MixedShapes ==
    {Shape(k, "Country", l, 0, 0, n) : k \in {"eq_and_ne", "eq_and_num"}, l \in {"Us", "US", "zz"}, n \in {25, 30}}

MixedText(sh) ==
    eq_text(sh.col, sh.lit) \o " and " \o bq("Age") \o (IF sh.kind = "eq_and_ne" THEN " != " ELSE " == ") \o NatToStr(sh.n)

\* the caller evaluates one such group
MaskGroupMixed ==
    /\ pc = "idle"
    /\ df.columns = Headers
    /\ \E sh \in MixedShapes :
         /\ call' = [NoCall EXCEPT !.op = "_mask_group_with_rownum", !.shape = sh, !.row_filter = MixedText(sh),
                                   !.before = df]
         /\ group_ret' = invoke("_mask_group_with_rownum", <<df, MixedText(sh)>>)
    /\ pc' = "returned"
    /\ UNCHANGED <<df, mask_ret, plan_ret, ret>>

NextMixed == MaskGroupMixed \/ Return

SpecMixed == InitFilter /\ [][NextMixed]_vars

(***************************************************************************)
(* Properties                                                              *)
(***************************************************************************)
Returned(op) == pc = "returned" /\ call.op = op

MaskReturned == Returned("_ensure_mask_from_query") /\ ~mask_ret.raised

PlanReturned == Returned("execute_plan") /\ ~plan_ret.raised

\* the cell, coerced to a number, lies in lo <= v < hi
InRange(c, lo, hi) ==
    LET v == to_numeric_cell(c)
    IN v.ok /\ lo <= v.n /\ v.n < hi

\* the cell, coerced to a number, is at least lo
AtLeast(c, lo) ==
    LET v == to_numeric_cell(c)
    IN v.ok /\ lo <= v.n

\* the cell holds a text equal to lit under case folding
EqualsFolded(c, lit) == c.k = "str" /\ casefold(c.s) = casefold(lit)

\* the rows an equality group selects on its own: the rows equal to the
\* literal, or the rows equal to it under case folding when there is none
EqRows(d, col, lit) ==
    IF \E r \in RowSet(d) : Cell(d, r, col) = Str(lit)
    THEN {r \in RowSet(d) : Cell(d, r, col) = Str(lit)}
    ELSE {r \in RowSet(d) : EqualsFolded(Cell(d, r, col), lit)}

\* the n-th of the rows in rows, in dataset order
NthOf(rows, n) == {r \in rows : Cardinality({q \in rows : q <= r}) = n}

SeqToSet(q) == {q[i] : i \in 1..Len(q)}

\* C1: _ensure_mask_from_query returns, without raising, a mask with one
\* entry per row, whatever the dataset and the filter text; a blank filter
\* and a filter no tier recognises give the all-true mask.
C1_AlwaysReturnsMask ==
    Returned("_ensure_mask_from_query") =>
        /\ ~mask_ret.raised
        /\ DOMAIN mask_ret.mask = RowSet(df)
        /\ (call.shape.kind \in {"blank", "junk"} => mask_ret.mask = AllTrue(df))

\* C2: for the filter `C` >= a and `C` < b the mask is exactly the rows
\* whose C cell, coerced to a number, satisfies a <= C < b; null and
\* non-numeric cells are excluded, in a numeric and in a text column.
C2_RangeMask ==
    MaskReturned /\ call.shape.kind = "range" =>
        \A r \in RowSet(df) :
            mask_ret.mask[r] <=> InRange(Cell(df, r, call.shape.col), call.shape.lo, call.shape.hi)

\* C3: for a single `col` == 'literal' filter, when no row equals the literal
\* exactly but some row equals it under case folding, the mask is exactly
\* the rows equal to it under case folding.
C3_FoldedEquality ==
    /\ MaskReturned /\ call.shape.kind = "eq"
    /\ \A r \in RowSet(df) : Cell(df, r, call.shape.col) # Str(call.shape.lit)
    /\ \E r \in RowSet(df) : EqualsFolded(Cell(df, r, call.shape.col), call.shape.lit)
    => \A r \in RowSet(df) : mask_ret.mask[r] <=> EqualsFolded(Cell(df, r, call.shape.col), call.shape.lit)

\* C4: for the filter __rownum__ == N alone the mask selects exactly the
\* row at position N of the whole dataset when 1 <= N <= number of rows,
\* and no row when N is 0 or beyond the last row.
C4_RownumAlone ==
    MaskReturned /\ call.shape.kind = "rownum" =>
        MaskRows(mask_ret.mask) = {call.shape.n} \cap RowSet(df)

C4_Witness ==
    /\ MaskReturned /\ call.shape.kind = "rownum"
    /\ call.shape.n = 2 /\ NRows(df) = 2
    /\ MaskRows(mask_ret.mask) = {2}

\* C5: the mask of `col` == 'literal' or __rownum__ == N is the union of the
\* rows the equality group selects on its own and the N-th row of the whole
\* dataset.
C5_OrUnion ==
    MaskReturned /\ call.shape.kind = "or" =>
        MaskRows(mask_ret.mask)
            = EqRows(df, call.shape.col, call.shape.lit) \cup ({call.shape.n} \cap RowSet(df))

\* the rows the predicates of a group given to _mask_group_with_rownum select
PredicateRows ==
    IF call.shape.kind = "eq_rownum" THEN EqRows(df, call.shape.col, call.shape.lit)
    ELSE {r \in RowSet(df) : AtLeast(Cell(df, r, call.shape.col), call.shape.lo)}

\* C6: for a group with predicates and a row-number clause N the mask
\* selects exactly the N-th row among the rows matching the predicates, in
\* dataset order, no row when N is 0 or exceeds their number, and always a
\* subset of the base mask.
C6_RownumWithinGroup ==
    /\ Returned("_mask_group_with_rownum") /\ call.shape.kind \in {"eq_rownum", "range_rownum"}
    /\ call.shape.col \in ColSet(df)
    =>  /\ MaskRows(group_ret.base) = PredicateRows
        /\ MaskRows(group_ret.mask) = NthOf(PredicateRows, call.shape.n)
        /\ MaskRows(group_ret.mask) \subseteq MaskRows(group_ret.base)

C6_Witness ==
    /\ Returned("_mask_group_with_rownum") /\ call.shape.kind = "eq_rownum"
    /\ call.shape.n = 1
    /\ MaskRows(group_ret.base) = {2}
    /\ MaskRows(group_ret.mask) = {2}

\* C7: replace with pattern ^.*$ and an explicit column list leaves the
\* replacement text in every listed column of every row passing the filter,
\* whatever the cell held before (a null, a text of several lines).
C7_MatchAllOverwrites ==
    /\ PlanReturned /\ call.intent = "replace" /\ call.replacement = "X"
    /\ call.pattern = "^.*$" /\ call.columns.some
    => \A r \in SeqToSet(plan_ret.payload.mask_row_indices), c \in SeqToSet(call.columns.v) :
           Cell(plan_ret.out, r, c) = Str("X")

PlainReplaceReturned == PlanReturned /\ call.intent = "replace" /\ call.replacement = "X"

LiteralPattern == IF call.pattern = "" THEN "^.*$" ELSE call.pattern

\* the matches of the literal pattern in the cell of row r and column c of
\* the dataset given to the call
LiteralCount(r, c) ==
    LET x == to_string_cell(call.before, c, Cell(call.before, r, c))
    IN IF x.k = "null" THEN 0 ELSE rx_count(rx_compile(LiteralPattern), x.s, _compile_flags(call.flags))

\* C8: in replace the regex is the pattern supplied (match-all when it is
\* empty): the columns applied, the counts and the cells rewritten are those
\* of the supplied pattern, whatever display regex the row filter gives.
C8_ReplaceUsesSuppliedPattern ==
    PlainReplaceReturned =>
        LET pl == plan_ret.payload
            rows == SeqToSet(pl.mask_row_indices)
            cols == _auto_columns(call.before, call.intent, call.pattern, call.columns)
        IN /\ pl.regex = LiteralPattern
           /\ pl.regex_source = "regex"
           /\ pl.columns_applied = cols
           /\ \A c \in SeqToSet(cols) : pl.per_column[c] = SumRows([r \in RowSet(df) |-> IF r \in rows THEN LiteralCount(r, c) ELSE 0])
           /\ \A r \in RowSet(df), c \in ColSet(df) :
                  to_string_cell(call.before, c, Cell(plan_ret.out, r, c))
                      # to_string_cell(call.before, c, Cell(call.before, r, c))
                  => r \in rows /\ c \in SeqToSet(cols) /\ LiteralCount(r, c) > 0

C8_Witness ==
    /\ PlainReplaceReturned /\ call.pattern = "^.*$"
    /\ plan_ret.payload.display_regex_source = "row_filter-derived"
    /\ plan_ret.payload.display_regex # plan_ret.payload.regex
    /\ plan_ret.payload.total > 0

FindReturned == PlanReturned /\ call.intent = "find"

\* the find is given no pattern of its own and the row filter gives one
PureFilterFind ==
    /\ call.pattern = "" \/ _MATCH_ALL_RE(call.pattern)
    /\ _display_regex_and_columns_from_row_filter(plan_ret.payload.row_filter_normalized).rx # ""

\* C9: in find, when the pattern is empty or the match-all form and the row
\* filter gives a display pattern, the description is the pure-filter text
\* and the result rows are exactly the rows of the mask; otherwise the
\* description is the filter-AND-pattern text.
C9_PureFilterFind ==
    FindReturned =>
        LET pl == plan_ret.payload
        IN IF PureFilterFind
           THEN /\ pl.result_rows_description = FilterOnlyText
                /\ pl.result_rows_indices = pl.mask_row_indices
                /\ pl.result_rows_count = Len(pl.mask_row_indices)
           ELSE pl.result_rows_description = FilterAndPatternText

C9_Witness ==
    /\ FindReturned /\ PureFilterFind
    /\ call.columns = SomeColumns(<<"Age">>)
    /\ plan_ret.payload.total = 0
    /\ plan_ret.payload.result_rows_count > 0

\* C10: execute_plan leaves the caller's dataset as it was: after a replace
\* the returned dataset is another object, after a find the returned dataset
\* has the cells of the input.
C10_CallerDatasetUnchanged ==
    Returned("execute_plan") =>
        /\ df = call.before
        /\ ~plan_ret.raised /\ call.intent = "replace" => plan_ret.out.id # df.id
        /\ ~plan_ret.raised /\ call.intent = "find" => plan_ret.out.rows = call.before.rows

C10_Witness ==
    /\ PlanReturned /\ call.intent = "replace"
    /\ plan_ret.out.rows # call.before.rows
    /\ df = call.before

\* the canonical form of a date: YYYY-MM-DD, zero-padded
Canonical(dt) == Pad(dt.y, 4) \o "-" \o Pad(dt.m, 2) \o "-" \o Pad(dt.d, 2)

\* the dates the tokens of a text stand for, in order
TokenDates(text, dayfirst, lib) ==
    SelectSeq(re_findall(text, LAMBDA i : date_token_at(text, i, dayfirst, lib)), LAMBDA m : m.dt.ok)

\* the text with every token that stands for a date written in canonical
\* form and everything else verbatim
CanonicalText(text, dayfirst, lib) ==
    re_sub(text, LAMBDA i : date_token_end(text, i),
                 LAMBDA i : IF date_token_at(text, i, dayfirst, lib).dt.ok
                            THEN Canonical(date_token_at(text, i, dayfirst, lib).dt)
                            ELSE Slice(text, i, date_token_end(text, i) - 1))

\* C11: normalize_date_text with the format YYYY-MM-DD writes every date
\* token in zero-padded canonical form and counts it ("Born 2024-5-1" gives
\* ("Born 2024-05-01", 1)), leaves the rest of the text verbatim, and
\* applied to its own output returns the same text.
C11_DateTextCanonicalIdempotent ==
    Returned("normalize_date_text") =>
        /\ ret.text = CanonicalText(call.args.text, call.args.dayfirst, call.lib)
        /\ ret.count = Len(TokenDates(call.args.text, call.args.dayfirst, call.lib))
        /\ call.args.text = "Born 2024-5-1" /\ ~call.args.dayfirst
               => ret = [text |-> "Born 2024-05-01", count |-> 1]
        /\ call.args.pass = 2 => ret.text = call.args.text

\* the leap years up to and including year y
LeapsUpTo(y) == (y \div 4) - (y \div 100) + (y \div 400)

\* the days from 1900-01-01 to the first day of year y
DaysBeforeYear(y) == 365 * (y - 1900) + LeapsUpTo(y - 1) - LeapsUpTo(1899)

\* the days from the first day of year y to the first day of its month m
RECURSIVE DaysBeforeMonth(_, _)
DaysBeforeMonth(y, m) == IF m = 1 THEN 0 ELSE DaysBeforeMonth(y, m - 1) + DaysIn(y, m - 1)

\* 1899-12-30 plus n days, for n >= 2 (1900-01-01 is day 2)
EpochPlus(n) ==
    LET k == n - 2
        y == CHOOSE yy \in 1900..2200 : DaysBeforeYear(yy) <= k /\ k < DaysBeforeYear(yy + 1)
        r == k - DaysBeforeYear(y)
        m == CHOOSE mm \in 1..12 : DaysBeforeMonth(y, mm) <= r /\ r < DaysBeforeMonth(y, mm) + DaysIn(y, mm)
    IN [ok |-> TRUE, y |-> y, m |-> m, d |-> r - DaysBeforeMonth(y, m) + 1]

SerialValue == call.args.value.k = "num" /\ call.args.value.n >= 10000 /\ call.args.value.n <= 80000

\* C12: normalize_cell_as_whole of a number n, 10000 <= n <= 80000, returns
\* the date 1899-12-30 plus n days in the output format, with count 1;
\* 45292 gives ("2024-01-01", 1).
C12_ExcelSerial ==
    Returned("normalize_cell_as_whole") /\ SerialValue =>
        /\ ret = [text |-> Canonical(EpochPlus(call.args.value.n)), count |-> 1]
        /\ call.args.value = Num(45292) => ret = [text |-> "2024-01-01", count |-> 1]

\* the sample holds an A/B/C date whose leading field can only be a day
LeadingDay(t) == dayfirst_fields(t) # <<>> /\ dayfirst_fields(t)[1] > 12

\* C13: guess_dayfirst answers true for samples whose A/B/C dates carry a
\* leading field above 12; ["31/12/2020", "15/01/2021"] gives true.
C13_GuessDayfirstLeadingDay ==
    /\ Returned("guess_dayfirst") /\ call.args.samples # <<>>
    /\ \A i \in 1..Len(call.args.samples) : LeadingDay(call.args.samples[i])
    => ret.answer = "true"

\* the errors of one kind, and what they name
ErrorsOf(errors, kind) == SelectSeq(errors, LAMBDA e : e.kind = kind)

Named(errors, kind) == [i \in 1..Len(ErrorsOf(errors, kind)) |-> ErrorsOf(errors, kind)[i].what[1]]

\* the flag characters plan_v2.py accepts
RecognisedFlags == {"i", "m", "s", "l", "u", "x", "U"}

\* patterns of the calls that re.compile rejects
RejectedPatterns == {"(", "[a"}

Chars(s) == [i \in 1..Len(s) |-> Ch(s, i)]

Folded(q) == {casefold(q[i]) : i \in 1..Len(q)}

ExpectedCount(b) == IF b THEN 1 ELSE 0

\* C14: _validate_plan reports every violation of the plan in one list: a
\* bad intent, a pattern that does not compile, each unsupported flag, the
\* columns unknown whatever their case, a missing replacement of a replace
\* plan, each backticked name of the row filter that is no header; it
\* reports nothing else, so nothing for a plan without violation, and the
\* plan and the headers are what they were.
C14_ValidationReportsAll ==
    Returned("_validate_plan") =>
        LET plan == call.args.plan
            headers == call.args.headers
            unknown == SelectSeq(plan.columns.v, LAMBDA c : casefold(c) \notin Folded(headers))
            no_replacement == plan.intent = "replace" /\ (~plan.replacement.some \/ plan.replacement.s = "")
        IN /\ Len(ErrorsOf(ret.errors, "intent")) = ExpectedCount(plan.intent \notin {"find", "replace"})
           /\ Len(ErrorsOf(ret.errors, "pattern not compilable")) = ExpectedCount(plan.pattern \in RejectedPatterns)
           /\ Named(ret.errors, "unsupported flag") = SelectSeq(Chars(plan.flags), LAMBDA f : f \notin RecognisedFlags)
           /\ Len(ErrorsOf(ret.errors, "unknown columns")) = ExpectedCount(unknown # <<>>)
           /\ \A i \in 1..Len(ErrorsOf(ret.errors, "unknown columns")) :
                 ErrorsOf(ret.errors, "unknown columns")[i].what = unknown
           /\ Len(ErrorsOf(ret.errors, "replacement is required")) = ExpectedCount(no_replacement)
           /\ Named(ret.errors, "row_filter references unknown column")
                = SelectSeq(call.args.ticks, LAMBDA t : t \notin SeqToSet(headers))
           /\ \A i \in 1..Len(ret.errors) :
                 ret.errors[i].kind \in {"intent", "pattern not compilable", "unsupported flag", "unknown columns",
                                        "replacement is required", "row_filter references unknown column"}
           /\ ret.plan = plan
           /\ ret.headers = headers

\* a replace plan with every kind of violation it can have, two flags and
\* two names of the row filter among them
C14_Witness ==
    /\ Returned("_validate_plan")
    /\ Len(ret.errors) = 7
    /\ call.args.plan.intent = "replace"
    /\ Len(Named(ret.errors, "unsupported flag")) = 2
    /\ Named(ret.errors, "row_filter references unknown column") = <<"country", "Nope">>
    /\ call.args.plan.columns = SomeColumns(<<"Nope", "COUNTRY", "zip">>)

\* C15: the plan normalize returns has flags that are recognised and not
\* empty ("i" when none is left), a pattern that is not empty (^.*$ when
\* it was blank) and a replacement that is none of NA, N/A, NaN, nan, na
\* (those become "N/A (missing)"); validating it reports no flag error and
\* no error about an empty pattern, and normalizing it again changes nothing.
C15_NormalizeInvariants ==
    Returned("normalize") =>
        LET before == call.args.plan
            after == ret.plan
            errors == _validate_plan(after, df.columns)
        IN /\ after.flags # ""
           /\ \A i \in 1..Len(after.flags) : Ch(after.flags, i) \in RecognisedFlags
           /\ SelectSeq(Chars(before.flags), LAMBDA f : f \in RecognisedFlags) = <<>> => after.flags = "i"
           /\ after.pattern # ""
           /\ strip(before.pattern) = "" => after.pattern = "^.*$"
           /\ ~(after.replacement.some /\ after.replacement.s \in {"NA", "N/A", "NaN", "nan", "na"})
           /\ (before.replacement.some /\ strip(before.replacement.s) \in {"NA", "N/A", "NaN", "nan", "na"})
                => after.replacement = SomeText("N/A (missing)")
           /\ ErrorsOf(errors, "unsupported flag") = <<>>
           /\ \A i \in 1..Len(errors) : errors[i].kind \in {"replacement is required"}
           /\ normalize(after) = after

\* a plan with unsupported flags only, a blank pattern and a padded N/A
C15_Witness ==
    /\ Returned("normalize")
    /\ call.args.plan.flags = "zq"
    /\ call.args.plan.pattern = "  "
    /\ call.args.plan.replacement = SomeText(" N/A ")
    /\ ret.plan.flags = "i"
    /\ ret.plan.pattern = "^.*$"
    /\ ret.plan.replacement = SomeText("N/A (missing)")

\* the paths of the OR-groups of a row filter on a dataset
GroupPaths(d, row_filter) ==
    LET gs == _ensure_mask_from_query(d, row_filter).groups
    IN {gs[i].path : i \in 1..Len(gs)}

\* the call had a row filter with a group that fell back to the match-all mask
FellBackToAll == PlanReturned /\ "all_false" \in GroupPaths(call.before, call.row_filter)

\* the same call with the filter that every row of the dataset satisfies
GenuineCall ==
    execute_plan(call.before, call.intent, call.pattern, call.flags, call.columns, call.replacement, GenuineFilter, call.lib)

GenuinelyAll ==
    /\ NRows(call.before) > 0
    /\ GroupPaths(call.before, GenuineFilter) = {"query"}
    /\ _ensure_mask_from_query(call.before, GenuineFilter).mask = AllTrue(call.before)

\* C16: when an OR-group of the row filter falls back to the match-all mask,
\* the payload of execute_plan tells so: apart from the two fields that
\* repeat the filter text, some field differs from the payload of the same
\* call with a filter that every row satisfies.
C16_UnrecognisedFilterReported ==
    (FellBackToAll /\ GenuinelyAll) =>
        \E f \in DOMAIN plan_ret.payload \ {"row_filter", "row_filter_normalized"} :
            plan_ret.payload[f] # GenuineCall.payload[f]

\* C17: the plan nl_execute hands to execute_plan passes _validate_plan
\* against the headers of the dataset, whichever path of plan_with_llm
\* made it (llm, llm_repair, llm_critic or the rule-based fallback).
C17_ExecutedPlansAreValid ==
    (Returned("nl_execute") /\ ret.handed) => _validate_plan(ret.plan, call.before.columns) = <<>>

\* C18: _split_top_level does not split at an or inside a quoted literal
\* or inside parentheses, a backslash inside a literal keeps the quote after
\* it from ending the literal, and the parts returned are not empty and
\* have no blank at either end: conditions that hold or only in such
\* places, joined by or, come back one by one.
C18_SplitRespectsQuotesAndParens ==
    Returned("_split_top_level") =>
        /\ \A i \in 1..Len(ret.parts) : ret.parts[i] # "" /\ strip(ret.parts[i]) = ret.parts[i]
        /\ call.args.kind = "quoted" => ret.parts = call.args.pieces

\* two conditions, the first with an escaped quote before its or
C18_Witness ==
    /\ Returned("_split_top_level")
    /\ call.args.pieces = <<QuotedPieces[4], QuotedPieces[3]>>
    /\ ret.parts = <<QuotedPieces[4], QuotedPieces[3]>>

\* the word or stands alone at position i: no word character on either side
StandaloneOrAt(expr, i) ==
    casefold(Slice(expr, i, i + 1)) = "or" /\ ~IsWord(Ch(expr, i - 1)) /\ ~IsWord(Ch(expr, i + 2))

\* C19: an expression without a standalone word or is one OR-group, the
\* trimmed expression; the letters or at the end of a name are no split
\* point.
C19_NoOrOneGroup ==
    (/\ Returned("_split_top_level")
     /\ strip(call.args.expr) # ""
     /\ \A i \in 1..Len(call.args.expr) : ~StandaloneOrAt(call.args.expr, i))
        => ret.parts = <<strip(call.args.expr)>>

\* C20: a row-number clause written with one of the spellings __rownum__,
\* row, row_number, index, between backticks or not, is taken out of the
\* group: its number is collected and " True " stands where it was.
C20_RownumClauseExtracted ==
    Returned("_remove_rownum_clauses") =>
        /\ ret.rownums = <<call.args.n>>
        /\ ret.expr_wo = call.args.before \o " True "

\* the groups a call of the mask functions evaluated, on the dataset it had
ReturnedGroups ==
    IF Returned("_mask_group_with_rownum") THEN <<[expr |-> call.row_filter] @@ group_ret>>
    ELSE IF MaskReturned THEN mask_ret.groups
    ELSE <<>>

\* the text of a group that its tiers are given
TierText(g) ==
    LET wo == strip(_remove_rownum_clauses(g.expr).expr_wo) IN IF wo = "" THEN "True" ELSE wo

\* the tag of the tier that gave the base mask of a group
TierPath(g) ==
    IF g.path = "rownum_only" THEN "rownum_only"
    ELSE IF g.rownums # <<>> THEN Slice(g.path, 1, Len(g.path) - Len("+rownum"))
    ELSE g.path

StrictOf(g) == df_query(call.before, TierText(g))

RewriteOf(g) == df_query(call.before, rewrite_and_or(TierText(g)))

ManualOf(g) == _mask_from_clauses(call.before, TierText(g))

\* the safety net of a strict result r: no row, a string equality in the
\* text and a clause the manual matcher recognises
SafetyNet(g, r) == MaskRows(r.m) = {} /\ _has_string_equality(TierText(g)) /\ ManualOf(g).some

TokenOf(sh) ==
    CASE sh.kind = "startswith" -> "^" \o re_escape(sh.lit)
      [] sh.kind = "endswith" -> re_escape(sh.lit) \o "$"
      [] sh.kind \in {"match", "fullmatch"} -> sh.lit
      [] sh.kind = "contains" -> _loose_token_regex(sh.lit)
      [] OTHER -> re_escape(sh.lit)

FindPredicateReturned == PlanReturned /\ call.intent = "find" /\ call.shape.kind \in PredicateOps \cup {"eq"}

\* C22: in find with an empty or match-all pattern, a row filter of one
\* string predicate or one equality with a quoted literal gives the pattern
\* derived from the literal as the effective regex, with the source
\* row_filter-derived, and the column of the predicate is the column
\* applied when the plan named no columns.
C22_DerivedPatternAdopted ==
    FindPredicateReturned =>
        /\ plan_ret.payload.regex = "(?:" \o TokenOf(call.shape) \o ")"
        /\ plan_ret.payload.regex_source = "row_filter-derived"
        /\ (~call.columns.some => plan_ret.payload.columns_applied = <<call.shape.col>>)

\* the matches of the effective regex in the cell of row r and column c of
\* the dataset given to the call
EffectiveCount(r, c) ==
    LET x == to_string_cell(call.before, c, Cell(call.before, r, c))
    IN IF x.k = "null" THEN 0
       ELSE rx_count(rx_compile(plan_ret.payload.regex), x.s, _compile_flags(call.flags))

\* the rows of the mask with a match in an applied column
HitRows ==
    {r \in SeqToSet(plan_ret.payload.mask_row_indices) :
        \E c \in SeqToSet(plan_ret.payload.columns_applied) : EffectiveCount(r, c) > 0}

\* the counts of a find are those of the rows of the mask in the applied
\* columns, and total is their sum
FindCounts ==
    LET pl == plan_ret.payload
        rows == SeqToSet(pl.mask_row_indices)
        cols == pl.columns_applied
    IN /\ \A c \in SeqToSet(cols) :
              pl.per_column[c] = SumRows([r \in RowSet(df) |-> IF r \in rows THEN EffectiveCount(r, c) ELSE 0])
       /\ pl.total = SumSeq([i \in 1..Len(cols) |-> pl.per_column[cols[i]]])

\* the examples of a find: at most ExampleCap, each of a hit row, in
\* ascending row order
FindExamples ==
    LET ex == plan_ret.payload.examples
    IN /\ Len(ex) <= ExampleCap
       /\ \A i \in 1..Len(ex) : ex[i]._index \in HitRows
       /\ \A i, j \in 1..Len(ex) : i < j => ex[i]._index < ex[j]._index

\* C23: in find the matches are counted in the rows of the mask and the
\* applied columns only: total is the sum of the counts per column, a row
\* is a hit exactly when an applied column of it, the row being in the
\* mask, has a match, and there are at most 50 examples, each of a hit row,
\* in ascending row order.
C23_FindCountsAndHits ==
    FindReturned =>
        /\ FindCounts
        /\ SeqToSet(plan_ret.payload.changed_row_indices) = HitRows
        /\ plan_ret.payload.rows_with_hits = Cardinality(HitRows)
        /\ FindExamples

ReplaceReturned ==
    PlanReturned /\ call.intent = "replace" /\ call.replacement \in {"", "X"} /\ plan_ret.payload.mode = "replace"

\* the text of the cell of row r and column c of the dataset d
CellText(d, r, c) == to_string_cell(call.before, c, Cell(d, r, c))

\* the cells a replace had to rewrite: in a row of the mask and an applied
\* column, with a match
Substituted(r, c) ==
    /\ r \in SeqToSet(plan_ret.payload.mask_row_indices)
    /\ c \in SeqToSet(plan_ret.payload.columns_applied)
    /\ EffectiveCount(r, c) > 0

DateReturned == PlanReturned /\ call.intent = "replace" /\ call.replacement = DateSentinel

\* the call treats each cell as one date
WholeCell == call.pattern \in DotStarForms

\* the mask of the call, from the rows the payload lists
PayloadMask == [r \in RowSet(call.before) |-> r \in SeqToSet(plan_ret.payload.mask_row_indices)]

\* the reading of ambiguous dates the call settled on
DayfirstUsed ==
    guess_dayfirst(dayfirst_samples(call.before, PayloadMask, plan_ret.payload.columns_applied)) = "true"

\* the dates found in the cell of row r and column c of the input: a
\* missing cell holds none, and in substring mode neither does a cell the
\* pattern does not match
DatesIn(r, c) ==
    LET x == CellText(call.before, r, c)
        rx == rx_compile(IF call.pattern = "" THEN "^.*$" ELSE call.pattern)
    IN IF x.k = "null" THEN 0
       ELSE IF WholeCell THEN normalize_cell_as_whole(x, "YYYY-MM-DD", DayfirstUsed, call.lib).count
       ELSE IF rx_count(rx, x.s, _compile_flags(call.flags)) = 0 THEN 0
       ELSE normalize_date_text(x.s, "YYYY-MM-DD", DayfirstUsed, call.lib).count

\* the cell is one the call had to normalize: masked row, applied column
Targeted(r, c) == PayloadMask[r] /\ c \in SeqToSet(plan_ret.payload.columns_applied)

DateCounts ==
    LET pl == plan_ret.payload
        cols == pl.columns_applied
    IN /\ \A c \in SeqToSet(cols) :
              pl.per_column[c] = SumRows([r \in RowSet(call.before) |-> IF PayloadMask[r] THEN DatesIn(r, c) ELSE 0])
       /\ pl.total = SumSeq([i \in 1..Len(cols) |-> pl.per_column[cols[i]]])

\* C25: in date-normalize replace a cell that does not parse as a date (a
\* missing cell, a cell outside the mask or the applied columns, in
\* substring mode a cell the pattern does not match) keeps its value and
\* adds nothing to the counts; the total is the number of normalizations.
C25_UnparsedCellsKept ==
    DateReturned =>
        /\ \A r \in RowSet(call.before), c \in ColSet(call.before) :
               (~Targeted(r, c) \/ DatesIn(r, c) = 0) => CellText(plan_ret.out, r, c) = CellText(call.before, r, c)
        /\ DateCounts

\* the sample holds an A/B/C date with A <= 12 and B <= 12
Ambiguous(t) == dayfirst_fields(t) # <<>> /\ dayfirst_fields(t)[1] <= 12 /\ dayfirst_fields(t)[2] <= 12

\* the positions of the samples of the call that are examined
Examined == 1..(IF Len(call.args.samples) < SampleCap THEN Len(call.args.samples) ELSE SampleCap)

AmbiguousHits == Cardinality({i \in Examined : Ambiguous(call.args.samples[i])})

DayfirstVotes == Cardinality({i \in Examined : Ambiguous(call.args.samples[i]) /\ has_day_hint(call.args.samples[i])})

\* C26: guess_dayfirst answers true only when the day-first votes among the
\* first 200 samples are at least one third of the ambiguous hits among
\* them and at least 1; in every other case it answers undetermined, never
\* false.
C26_GuessDayfirstThreshold ==
    Returned("guess_dayfirst") =>
        /\ ret.answer \in {"true", "none"}
        /\ ret.answer = "true" <=> (3 * DayfirstVotes >= AmbiguousHits /\ DayfirstVotes >= 1)

MixedReturned == Returned("_mask_group_with_rownum") /\ call.shape.kind \in {"eq_and_ne", "eq_and_num"}

\* row r satisfies the comparison of Age with the number of the group
AgeClauseHolds(r) ==
    LET v == to_numeric_cell(Cell(call.before, r, "Age"))
    IN IF call.shape.kind = "eq_and_ne" THEN ~(v.ok /\ v.n = call.shape.n) ELSE v.ok /\ v.n = call.shape.n

\* C27: when the strict evaluation of a group gives no row and the
\* case-insensitive equality safety net gives the mask instead, every row
\* of the mask satisfies the whole group with the string equality compared
\* under case folding: also the clauses the manual matcher does not
\* recognise.
C27_SafetyNetSound ==
    (MixedReturned /\ group_ret.path = "query_zero_and_fallback") =>
        \A r \in RowSet(call.before) :
            group_ret.mask[r] =>
                /\ EqualsFolded(Cell(call.before, r, call.shape.col), call.shape.lit)
                /\ AgeClauseHolds(r)

NlReturned == Returned("nl_execute") /\ ~ret.raised

\* C28: the payload nl_execute returns carries the provenance of the
\* effective regex: regex_source is "row_filter-derived" when execute_plan
\* took the regex from the row filter and "regex" when it used the pattern
\* of the plan, the value execute_plan put in its payload.
C28_RegexSourceKept ==
    NlReturned =>
        /\ ret.result.payload.regex_source \in {"regex", "row_filter-derived"}
        /\ ret.payload.regex_source = ret.result.payload.regex_source

PlanWithLlmReturned == Returned("plan_with_llm")

PlanSources == {"llm", "llm_repair", "llm_critic", "fallback"}

\* MAX_ATTEMPTS of the call: max(1, int(MAX_LLM_ATTEMPTS))
AttemptsOf(env) == IF DigitsToNat(env.attempts) < 1 THEN 1 ELSE DigitsToNat(env.attempts)

\* the replies of the language model in the call
RepliesOf(llm) == {llm.first, llm.repair} \cup {llm.critic[i] : i \in 1..3}

\* the rule-based plan of the call
RulePlanOf(args, headers) == normalize(_rule_plan(args.instruction, headers))

\* C29: plan_with_llm returns a plan with a source among llm, llm_repair,
\* llm_critic and fallback whatever the language model answers; it asks
\* for one generation at most and for at most MAX_LLM_ATTEMPTS - 1 repairs;
\* a plan with a source other than fallback is left as it is by
\* _align_columns and passes _validate_plan; and when no reply passes,
\* the plan is the rule-based plan with source fallback.
C29_PlanWithLlmEnds ==
    PlanWithLlmReturned =>
        /\ ~ret.raised
        /\ ret.source \in PlanSources
        /\ ret.calls.generate <= 1
        /\ ret.calls.repair <= AttemptsOf(call.args.env) - 1
        /\ ret.source # "fallback" =>
               /\ _align_columns(ret.plan, df.columns) = ret.plan
               /\ _validate_plan(ret.plan, df.columns) = <<>>
        /\ ret.source = "fallback" => ret.plan = RulePlanOf(call.args, df.columns)
        /\ (\A reply \in RepliesOf(call.args.llm) : ~checked_plan(reply, df.columns).ok) => ret.source = "fallback"

\* C30: the critic is asked only when ENABLE_CRITIC is "1": with any other
\* text no critic call is made and no plan has the source llm_critic.
C30_CriticOnlyWhenEnabled ==
    (PlanWithLlmReturned /\ ~ret.raised /\ call.args.env.critic # "1") =>
        /\ ret.calls.critic = 0
        /\ ret.source # "llm_critic"

====
